---- MODULE Spec2Model ----
(***************************************************************************)
(* cstats daemon: the sample sink (openCSV / writeRow), the reader         *)
(* (loadCSV), the scheduling loop of runDockerDaemon / runK8sDaemon and    *)
(* the two collect closures.                                               *)
(*                                                                         *)
(* Numbers are exact rationals [num, den]; a float64 of the program is     *)
(* modelled by the real number it approximates.  Time is in milliseconds.  *)
(* A CSV field is a record [k, s, n]: a text field carries its characters  *)
(* in s, a formatted time carries its whole seconds in n and a formatted   *)
(* "%.2f" number carries its hundredths in n.                              *)
(***************************************************************************)
EXTENDS Integers, Sequences, FiniteSets, TLC

\* ------------------------------------------------------------------ bounds
MaxTicks == 1        \* ticks the interval timers deliver, over all runs
MaxStarts == 2       \* process starts against the one output path
MaxContainers == 2   \* containers one enumeration returns
MaxSamples == 2      \* samples appended in the round-trip specification

\* --------------------------------------------------------------- constants
MsPerSecond == 1000
MiB == 1048576

\* --------------------------------------------------------------- rationals
Abs(x) == IF x < 0 THEN -x ELSE x

RECURSIVE GCD(_, _)
GCD(a, b) == IF b = 0 THEN a ELSE GCD(b, a % b)

Rat(n, d) ==
  LET g == GCD(Abs(n), d)
  IN  IF n = 0 THEN [num |-> 0, den |-> 1]
      ELSE [num |-> n \div g, den |-> d \div g]

RInt(n) == [num |-> n, den |-> 1]
RZero == RInt(0)
RMul(a, b) ==
  LET g1 == GCD(Abs(a.num), b.den)
      g2 == GCD(Abs(b.num), a.den)
  IN  IF a.num = 0 \/ b.num = 0 THEN RZero
      ELSE [num |-> (a.num \div g1) * (b.num \div g2),
            den |-> (a.den \div g2) * (b.den \div g1)]

\* ---------------------------------------------------------- CSV formatting
Text(chars) == [k |-> "text", s |-> chars, n |-> 0]
TimeField(sec) == [k |-> "time", s |-> <<>>, n |-> sec]
NumField(h) == [k |-> "num", s |-> <<>>, n |-> h]

\* csvHeader
csvHeader ==
  << Text(<<"timestamp">>), Text(<<"container">>), Text(<<"cpu_pct">>),
     Text(<<"mem_usage_mb">>), Text(<<"mem_limit_mb">>), Text(<<"mem_pct">>) >>

\* ts.Format(time.RFC3339): whole seconds, the fraction is dropped
FormatRFC3339_nearest(ts) == TimeField((ts + MsPerSecond \div 2) \div MsPerSecond)
FormatRFC3339(ts) == TimeField(ts \div MsPerSecond)

\* fmt.Sprintf("%.2f", v): the nearest hundredth, ties to even
Sprintf2_onedigit(v) ==
  LET g == GCD(10, v.den)
  IN  NumField(10 * ((v.num * (10 \div g)) \div (v.den \div g)))
Sprintf2(v) ==
  LET g == GCD(100, v.den)
      n == v.num * (100 \div g)
      d == v.den \div g
      q == n \div d
      r == n % d
  IN  NumField(IF 2 * r < d THEN q
               ELSE IF 2 * r > d THEN q + 1
               ELSE IF q % 2 = 0 THEN q ELSE q + 1)

\* the record writeRow hands to w.Write
RowOf(ts, name, cpuPct, memUsageMB, memLimitMB, memPct) ==
  << FormatRFC3339(ts), Text(name), Sprintf2(cpuPct), Sprintf2(memUsageMB),
     Sprintf2(memLimitMB), Sprintf2(memPct) >>

\* ------------------------------------------------------------------ reader
IsSpace(c) == c \in {" ", "\t", "\n", "\r"}

RECURSIVE TrimLeft(_)
TrimLeft(s) == IF s # <<>> /\ IsSpace(Head(s)) THEN TrimLeft(Tail(s)) ELSE s

RECURSIVE TrimRight(_)
TrimRight(s) ==
  IF s # <<>> /\ IsSpace(s[Len(s)]) THEN TrimRight(SubSeq(s, 1, Len(s) - 1))
  ELSE s

\* strings.TrimSpace
TrimSpace(s) == TrimRight(TrimLeft(s))

\* idx[strings.TrimSpace(h)] = i over the header: a later column wins
HeaderIdx(header, word) ==
  LET hits == {i \in 1..Len(header) : TrimSpace(header[i].s) = <<word>>}
  IN  IF hits = {} THEN 0 ELSE CHOOSE i \in hits : \A j \in hits : j <= i

NeedColumns ==
  <<"timestamp", "container", "cpu_pct", "mem_usage_mb", "mem_limit_mb", "mem_pct">>

\* strconv.ParseFloat with the error dropped: 0 for a field that is no number
ParseFloat(field) == IF field.k = "num" THEN Rat(field.n, 100) ELSE RZero

\* the record loadCSV builds from one row
RecordOf(header, row) ==
  [ Timestamp  |-> row[HeaderIdx(header, "timestamp")].n * MsPerSecond,
    Container  |-> TrimSpace(row[HeaderIdx(header, "container")].s),
    CPUPct     |-> ParseFloat(row[HeaderIdx(header, "cpu_pct")]),
    MemUsageMB |-> ParseFloat(row[HeaderIdx(header, "mem_usage_mb")]),
    MemLimitMB |-> ParseFloat(row[HeaderIdx(header, "mem_limit_mb")]),
    MemPct     |-> ParseFloat(row[HeaderIdx(header, "mem_pct")]) ]

\* a row the loop of loadCSV skips: a csv field-count error or a timestamp
\* neither layout parses
RowSkipped(header, row) ==
  \/ Len(row) # Len(header)
  \/ row[HeaderIdx(header, "timestamp")].k # "time"

RECURSIVE LoadRows(_, _, _)
LoadRows(header, lines, i) ==
  IF i > Len(lines) THEN <<>>
  ELSE IF RowSkipped(header, lines[i]) THEN LoadRows(header, lines, i + 1)
  ELSE <<RecordOf(header, lines[i])>> \o LoadRows(header, lines, i + 1)

\* loadCSV on a file that exists with the given lines
loadCSV(lines) ==
  IF lines = <<>> THEN [err |-> "reading header", records |-> <<>>]
  ELSE IF \E w \in 1..Len(NeedColumns) : HeaderIdx(lines[1], NeedColumns[w]) = 0
    THEN [err |-> "missing column", records |-> <<>>]
  ELSE [err |-> "", records |-> LoadRows(lines[1], lines, 2)]

\* ---------------------------------------------------------- Docker backend
\* calcDockerCPU over the decoded dockerStatsJSON
calcDockerCPU_noDefault(s) ==
  LET cpuDelta == s.total_usage - s.pre_total_usage
      sysDelta == s.system_cpu_usage - s.pre_system_cpu_usage
  IN  IF sysDelta <= 0 \/ cpuDelta < 0 THEN RZero
      ELSE RMul(RMul(Rat(cpuDelta, sysDelta), RInt(s.online_cpus)), RInt(100))
calcDockerCPU_absDelta(s) ==
  LET cpuDelta == s.total_usage - s.pre_total_usage
      sysDelta == s.system_cpu_usage - s.pre_system_cpu_usage
      numCPUs  == IF s.online_cpus = 0 THEN 1 ELSE s.online_cpus
  IN  IF sysDelta = 0 THEN RZero
      ELSE RMul(RMul(Rat(cpuDelta, Abs(sysDelta)), RInt(numCPUs)), RInt(100))
calcDockerCPU(s) ==
  LET cpuDelta == s.total_usage - s.pre_total_usage
      sysDelta == s.system_cpu_usage - s.pre_system_cpu_usage
      numCPUs  == IF s.online_cpus = 0 THEN 1 ELSE s.online_cpus
  IN  IF sysDelta <= 0 \/ cpuDelta < 0 THEN RZero
      ELSE RMul(RMul(Rat(cpuDelta, sysDelta), RInt(numCPUs)), RInt(100))

calcDockerMem_cacheFirst(s) ==
  LET inactive == IF "inactive_file" \in DOMAIN s.stats THEN s.stats["inactive_file"] ELSE 0
      cache == IF "cache" \in DOMAIN s.stats THEN s.stats["cache"] ELSE 0
      sub == IF cache > 0 THEN cache ELSE IF inactive > 0 THEN inactive ELSE 0
      raw   == s.usage - sub
      usage == IF raw < 0 THEN 0 ELSE raw
  IN  [ usageMB |-> Rat(usage, MiB),
        limitMB |-> Rat(s.limit, MiB),
        pct     |-> IF s.limit > 0 THEN RMul(Rat(usage, s.limit), RInt(100))
                    ELSE RZero ]
calcDockerMem_largest(s) ==
  LET inactive == IF "inactive_file" \in DOMAIN s.stats THEN s.stats["inactive_file"] ELSE 0
      cache == IF "cache" \in DOMAIN s.stats THEN s.stats["cache"] ELSE 0
      sub == IF inactive > cache THEN (IF inactive > 0 THEN inactive ELSE 0)
             ELSE (IF cache > 0 THEN cache ELSE 0)
      raw   == s.usage - sub
      usage == IF raw < 0 THEN 0 ELSE raw
  IN  [ usageMB |-> Rat(usage, MiB),
        limitMB |-> Rat(s.limit, MiB),
        pct     |-> IF s.limit > 0 THEN RMul(Rat(usage, s.limit), RInt(100))
                    ELSE RZero ]
calcDockerMem_noClamp(s) ==
  LET inactive == IF "inactive_file" \in DOMAIN s.stats THEN s.stats["inactive_file"] ELSE 0
      cache == IF "cache" \in DOMAIN s.stats THEN s.stats["cache"] ELSE 0
      sub == IF inactive > 0 THEN inactive ELSE IF cache > 0 THEN cache ELSE 0
      raw   == s.usage - sub
      usage == raw
  IN  [ usageMB |-> Rat(usage, MiB),
        limitMB |-> Rat(s.limit, MiB),
        pct     |-> IF s.limit > 0 THEN RMul(Rat(usage, s.limit), RInt(100))
                    ELSE RZero ]
calcDockerMem_unlimitedIsFull(s) ==
  LET sub == IF "inactive_file" \in DOMAIN s.stats /\ s.stats["inactive_file"] > 0
               THEN s.stats["inactive_file"]
             ELSE IF "cache" \in DOMAIN s.stats /\ s.stats["cache"] > 0
               THEN s.stats["cache"]
             ELSE 0
      raw   == s.usage - sub
      usage == IF raw < 0 THEN 0 ELSE raw
  IN  [ usageMB |-> Rat(usage, MiB),
        limitMB |-> Rat(s.limit, MiB),
        pct     |-> IF s.limit > 0 THEN RMul(Rat(usage, s.limit), RInt(100))
                    ELSE RInt(100) ]
\* calcDockerMem: s.stats is the decoded map, a function on the keys present
calcDockerMem(s) ==
  LET sub == IF "inactive_file" \in DOMAIN s.stats /\ s.stats["inactive_file"] > 0
               THEN s.stats["inactive_file"]
             ELSE IF "cache" \in DOMAIN s.stats /\ s.stats["cache"] > 0
               THEN s.stats["cache"]
             ELSE 0
      raw   == s.usage - sub
      usage == IF raw < 0 THEN 0 ELSE raw
  IN  [ usageMB |-> Rat(usage, MiB),
        limitMB |-> Rat(s.limit, MiB),
        pct     |-> IF s.limit > 0 THEN RMul(Rat(usage, s.limit), RInt(100))
                    ELSE RZero ]

\* strings.TrimPrefix(n, "/")
TrimPrefixSlash(n) == IF n # <<>> /\ Head(n) = "/" THEN Tail(n) ELSE n

\* containerName
containerName(names) ==
  IF names = <<>> THEN <<"unknown">> ELSE TrimPrefixSlash(names[1])

\* the zero value of the result struct
ZeroResult ==
  [name |-> <<>>, cpuPct |-> RZero, memUsage |-> RZero, memLimit |-> RZero,
   memPct |-> RZero]

\* what one fetch goroutine stores in its slot after a successful decode
DockerResult(c) ==
  LET m == calcDockerMem(c.stats)
  IN  [name |-> containerName(c.names), cpuPct |-> calcDockerCPU(c.stats),
       memUsage |-> m.usageMB, memLimit |-> m.limitMB, memPct |-> m.pct]

\* snapshots the engine returns (the second has a zero system delta, a cgroup
\* v1 cache counter and no memory limit)
StatsWeb ==
  [ total_usage |-> 200, pre_total_usage |-> 100, system_cpu_usage |-> 5000,
    pre_system_cpu_usage |-> 4000, online_cpus |-> 4,
    usage |-> 300 * MiB, limit |-> 1024 * MiB,
    stats |-> [x \in {"inactive_file"} |-> 50 * MiB] ]
StatsDb ==
  [ total_usage |-> 70, pre_total_usage |-> 30, system_cpu_usage |-> 4000,
    pre_system_cpu_usage |-> 4000, online_cpus |-> 0,
    usage |-> 10 * MiB, limit |-> 0,
    stats |-> [x \in {"cache"} |-> 12 * MiB] ]
StatsAnon ==
  [ total_usage |-> 50, pre_total_usage |-> 0, system_cpu_usage |-> 400,
    pre_system_cpu_usage |-> 0, online_cpus |-> 0,
    usage |-> 64 * MiB, limit |-> 512 * MiB,
    stats |-> [x \in {} |-> 0] ]

\* the containers of the host, in the order the engine lists them
DockerHost ==
  << [id |-> 1, names |-> << <<"/", "web">> >>, stats |-> StatsWeb],
     [id |-> 2, names |-> << <<"/", "db">>, <<"/", "alias">> >>, stats |-> StatsDb],
     [id |-> 3, names |-> <<>>, stats |-> StatsAnon] >>

\* a container whose only name is the bare separator
ContainerBare == [id |-> 4, names |-> << <<"/">> >>, stats |-> StatsAnon]

RECURSIVE Pick(_, _, _)
Pick(seq, keep, i) ==
  IF i > Len(seq) THEN <<>>
  ELSE (IF i \in keep THEN <<seq[i]>> ELSE <<>>) \o Pick(seq, keep, i + 1)

\* the possible answers of ContainerList: the containers running at the moment
Enumerations ==
  { SubSeq(DockerHost, 1, n) :
      n \in 0..(IF MaxContainers < Len(DockerHost) THEN MaxContainers
                ELSE Len(DockerHost)) }
  \cup { <<ContainerBare>> }

\* ------------------------------------------------------ Kubernetes backend
\* limitsMap[key] built from pods.Items: absent limits stay 0
LimitsMap(pods) ==
  LET keys == UNION { { <<pods[p].ns, pods[p].name, pods[p].containers[c].name>> :
                          c \in 1..Len(pods[p].containers) } : p \in 1..Len(pods) }
      lastOf(key) ==
        LET hits == { <<p, c>> \in (1..Len(pods)) \X (1..MaxContainers + 1) :
                        /\ c <= Len(pods[p].containers)
                        /\ <<pods[p].ns, pods[p].name, pods[p].containers[c].name>> = key }
            h == CHOOSE x \in hits :
                   \A y \in hits : y[1] < x[1] \/ (y[1] = x[1] /\ y[2] <= x[2])
        IN  pods[h[1]].containers[h[2]].limits
  IN  [ key \in keys |->
          [ cpuMillis |-> IF "cpu" \in DOMAIN lastOf(key) THEN lastOf(key)["cpu"] ELSE 0,
            memBytes  |-> IF "memory" \in DOMAIN lastOf(key) THEN lastOf(key)["memory"]
                          ELSE 0 ] ]

K8sResult_bothOrNothing(limitsMap, pm, cm) ==
  LET key == <<pm.ns, pm.name, cm.name>>
      has == /\ key \in DOMAIN limitsMap
             /\ limitsMap[key].cpuMillis > 0
             /\ limitsMap[key].memBytes > 0
  IN  [ name     |-> pm.ns \o <<"/">> \o pm.name,
        cpuPct   |-> IF has
                       THEN RMul(Rat(cm.cpuMillis, limitsMap[key].cpuMillis), RInt(100))
                     ELSE RZero,
        memUsage |-> Rat(cm.memBytes, MiB),
        memLimit |-> IF has THEN Rat(limitsMap[key].memBytes, MiB) ELSE RZero,
        memPct   |-> IF has
                       THEN RMul(Rat(cm.memBytes, limitsMap[key].memBytes), RInt(100))
                     ELSE RZero ]
K8sResult_podKeyed(limitsMap, pm, cm) ==
  LET mine == {k \in DOMAIN limitsMap : k[1] = pm.ns /\ k[2] = pm.name}
      has == mine # {}
      key == CHOOSE k \in mine : \A o \in mine : k[3] = "app" \/ o[3] # "app"
  IN  [ name     |-> pm.ns \o <<"/">> \o pm.name,
        cpuPct   |-> IF has /\ limitsMap[key].cpuMillis > 0
                       THEN RMul(Rat(cm.cpuMillis, limitsMap[key].cpuMillis), RInt(100))
                     ELSE RZero,
        memUsage |-> Rat(cm.memBytes, MiB),
        memLimit |-> IF has /\ limitsMap[key].memBytes > 0
                       THEN Rat(limitsMap[key].memBytes, MiB) ELSE RZero,
        memPct   |-> IF has /\ limitsMap[key].memBytes > 0
                       THEN RMul(Rat(cm.memBytes, limitsMap[key].memBytes), RInt(100))
                     ELSE RZero ]
\* the arguments of writeRow for container cm of pod metrics pm
K8sResult(limitsMap, pm, cm) ==
  LET key == <<pm.ns, pm.name, cm.name>>
      has == key \in DOMAIN limitsMap
  IN  [ name     |-> pm.ns \o <<"/">> \o pm.name,
        cpuPct   |-> IF has /\ limitsMap[key].cpuMillis > 0
                       THEN RMul(Rat(cm.cpuMillis, limitsMap[key].cpuMillis), RInt(100))
                     ELSE RZero,
        memUsage |-> Rat(cm.memBytes, MiB),
        memLimit |-> IF has /\ limitsMap[key].memBytes > 0
                       THEN Rat(limitsMap[key].memBytes, MiB) ELSE RZero,
        memPct   |-> IF has /\ limitsMap[key].memBytes > 0
                       THEN RMul(Rat(cm.memBytes, limitsMap[key].memBytes), RInt(100))
                     ELSE RZero ]

RECURSIVE K8sContainerRows_skipsUnlimited(_, _, _)
K8sContainerRows_skipsUnlimited(limitsMap, pm, c) ==
  IF c > Len(pm.containers) THEN <<>>
  ELSE (IF <<pm.ns, pm.name, pm.containers[c].name>> \in DOMAIN limitsMap
          THEN <<K8sResult(limitsMap, pm, pm.containers[c])>> ELSE <<>>)
         \o K8sContainerRows_skipsUnlimited(limitsMap, pm, c + 1)
RECURSIVE K8sContainerRows(_, _, _)
K8sContainerRows(limitsMap, pm, c) ==
  IF c > Len(pm.containers) THEN <<>>
  ELSE <<K8sResult(limitsMap, pm, pm.containers[c])>>
         \o K8sContainerRows(limitsMap, pm, c + 1)

\* the rows of the two nested loops over podMetrics.Items, in order
RECURSIVE K8sRows(_, _, _)
K8sRows(limitsMap, items, p) ==
  IF p > Len(items) THEN <<>>
  ELSE K8sContainerRows(limitsMap, items[p], 1) \o K8sRows(limitsMap, items, p + 1)

\* the pod of the cluster and the metrics its containers report
PodWeb ==
  [ ns |-> <<"ns">>, name |-> <<"web">>,
    containers |->
      << [name |-> "app", limits |-> [x \in {"cpu", "memory"} |->
                                        IF x = "cpu" THEN 500 ELSE 256 * MiB]],
         [name |-> "sidecar", limits |-> [x \in {"cpu"} |-> 200]] >> ]
MetricsWeb ==
  << [name |-> "app", cpuMillis |-> 250, memBytes |-> 128 * MiB],
     [name |-> "sidecar", cpuMillis |-> 50, memBytes |-> 16 * MiB],
     [name |-> "debug", cpuMillis |-> 10, memBytes |-> 4 * MiB] >>

\* the possible answers of Pods.List and of PodMetricses.List
PodLists == { <<>>, <<PodWeb>> }
MetricLists ==
  { <<>> } \cup
  { << [ns |-> <<"ns">>, name |-> <<"web">>, containers |-> Pick(MetricsWeb, keep, 1)] >> :
      keep \in {k \in SUBSET (1..Len(MetricsWeb)) :
                  k # {} /\ Cardinality(k) <= MaxContainers} }

\* ------------------------------------------------------------------- state
VARIABLES
  pc,            \* position of the daemon process
  backend,       \* "docker" or "k8s": the subcommand of runDaemon
  interval,      \* the -interval flag
  reachable,     \* the container engine / API server answers requests
  stop,          \* stopCh is closed
  tickPending,   \* a tick sits in ticker.C (capacity 1)
  ticks,         \* ticks the tickers have produced, over all runs
  clock,         \* wall clock, ms
  exists,        \* the output path exists
  file,          \* lines of the output file
  buf,           \* lines held in the csv.Writer buffer
  containers,    \* answer of ContainerList in this cycle
  tasks,         \* state of each fetch goroutine
  results,       \* result slots / rows of this cycle
  idx,           \* position of the write loop in results
  ts,            \* capture timestamp of this cycle
  limitsMap,     \* limits index of this Kubernetes cycle
  podItems,      \* pods.Items of this Kubernetes cycle
  metricItems,   \* podMetrics.Items of this Kubernetes cycle
  cycleStartClock,\* the clock when collect() was entered
  listClock,     \* the clock when the last list call of the cycle returned
  prevTasks,     \* how the fetch tasks of the cycle before this one ended
  firstDone,     \* the index of the fetch task of the cycle that ended first, 0 for none
  starts,        \* process starts so far
  collectCalls,  \* calls of collect() in this run
  ticksReceived, \* ticks the select has taken from ticker.C in this run
  cycleAfterStop,\* stopCh was closed when the current cycle began
  stopMidCycle,  \* stopCh was closed while the current cycle was in progress
  cycleBase,     \* length of the file when the current cycle began
  cycleEnd,      \* how the last cycle ended
  prevEnd,       \* how the cycle before it ended
  acked,         \* rows whose writeRow has returned, over all runs
  lost,          \* rows dropped from the buffer by a kill
  rtPc,          \* round trip: position of the writer-then-reader run
  rtIn,          \* round trip: the samples appended so far
  rtOut,         \* round trip: what loadCSV returned
  calcPc,        \* one sample: position of the computation
  calcIn,        \* one sample: the decoded answer of the backend
  calcOut        \* one sample: the arguments handed to writeRow and the row

schedVars == <<pc, backend, interval, reachable, stop, tickPending, ticks, clock, starts>>
sinkVars == <<exists, file, buf>>
cycleVars == <<containers, tasks, results, idx, ts, limitsMap>>
ghostVars == <<collectCalls, ticksReceived, cycleAfterStop, stopMidCycle, cycleBase,
               cycleEnd, prevEnd, acked, lost>>

rtVars == <<rtPc, rtIn, rtOut>>
calcVars == <<calcPc, calcIn, calcOut>>
k8sVars == <<podItems, metricItems>>
histVars == <<cycleStartClock, listClock, prevTasks, firstDone>>

Backends == {"docker", "k8s"}

\* a history counter, counted up to cap: past the ticks the timer is followed
\* for, the calls and the ticks taken are no longer told apart
Counted(n, cap) == IF n < cap THEN n + 1 ELSE n
Intervals == {-1, 0, 1}

\* positions inside runDockerDaemon / runK8sDaemon
StartupPCs == {"connect", "open", "header", "ticker"}
CyclePCs == {"list", "fetch", "pods", "metrics", "write", "flush"}
LoopPCs == {"collect", "select"} \cup CyclePCs
EndPCs == {"returned", "fatal", "panic", "killed"}

\* ----------------------------------------------------------------- startup
\* runDaemon: the signal goroutine is installed, the flags are parsed and the
\* backend function is called
Start(b, iv, r) ==
  /\ pc = "idle"
  /\ starts < MaxStarts
  /\ pc' = "connect"
  /\ backend' = b
  /\ interval' = iv
  /\ reachable' = r
  /\ stop' = FALSE
  /\ tickPending' = FALSE
  /\ starts' = starts + 1
  /\ buf' = <<>>
  /\ containers' = <<>> /\ tasks' = <<>> /\ results' = <<>> /\ idx' = 1
  /\ ts' = 0 /\ limitsMap' = <<>>
  /\ collectCalls' = 0 /\ ticksReceived' = 0
  /\ cycleAfterStop' = FALSE /\ stopMidCycle' = FALSE
  /\ cycleBase' = 0 /\ cycleEnd' = "none" /\ prevEnd' = "none"
  /\ podItems' = <<>> /\ metricItems' = <<>>
  /\ cycleStartClock' = clock /\ listClock' = clock /\ prevTasks' = <<>>
  /\ firstDone' = 0
  /\ UNCHANGED <<calcVars, rtVars, ticks, clock, exists, file, acked, lost>>

\* the goroutine of runDaemon closes stopCh on SIGINT / SIGTERM
Signal ==
  /\ pc \in StartupPCs \cup LoopPCs
  /\ ~stop
  /\ stop' = TRUE
  /\ stopMidCycle' = (pc \in CyclePCs)
  /\ UNCHANGED <<calcVars, rtVars, k8sVars, histVars, pc, backend, interval, reachable, tickPending, ticks, clock, starts>>
  /\ UNCHANGED <<sinkVars, cycleVars>>
  /\ UNCHANGED <<collectCalls, ticksReceived, cycleAfterStop, cycleBase, cycleEnd,
                 prevEnd, acked, lost>>

\* runDockerDaemon: NewClientWithOpts, then Ping
DockerConnect(clientOK) ==
  /\ pc = "connect" /\ backend = "docker"
  /\ pc' = IF clientOK /\ reachable THEN "open" ELSE "fatal"
  /\ UNCHANGED <<calcVars, rtVars, k8sVars, histVars, backend, interval, reachable, stop, tickPending, ticks, clock, starts>>
  /\ UNCHANGED <<sinkVars, cycleVars, ghostVars>>

\* runK8sDaemon: kubeconfig, clientset and metrics client are built from
\* local configuration; no request is sent to the API server
K8sConnect(configOK) ==
  /\ pc = "connect" /\ backend = "k8s"
  /\ pc' = IF configOK THEN "open" ELSE "fatal"
  /\ UNCHANGED <<calcVars, rtVars, k8sVars, histVars, backend, interval, reachable, stop, tickPending, ticks, clock, starts>>
  /\ UNCHANGED <<sinkVars, cycleVars, ghostVars>>

\* openCSV: needHeader from os.Stat
NeedHeader_always(e, f) == TRUE
NeedHeader(e, f) == ~e \/ f = <<>>

\* what a flush of the buffer through the O_APPEND descriptor leaves in the file
FlushTo_truncating(f, b) == b
FlushTo_prepending(f, b) == b \o f
FlushTo(f, b) == f \o b

\* openCSV up to w.Write(csvHeader): Stat, OpenFile(O_CREATE|O_WRONLY|O_APPEND)
OpenCSV(openOK) ==
  /\ pc = "open"
  /\ IF ~openOK
       THEN /\ pc' = "fatal"
            /\ UNCHANGED sinkVars
       ELSE /\ exists' = TRUE
            /\ file' = file
            /\ IF NeedHeader(exists, file)
                 THEN buf' = <<csvHeader>> /\ pc' = "header"
                 ELSE buf' = <<>> /\ pc' = "ticker"
  /\ UNCHANGED <<calcVars, rtVars, k8sVars, histVars, backend, interval, reachable, stop, tickPending, ticks, clock, starts>>
  /\ UNCHANGED <<cycleVars, ghostVars>>

\* openCSV: w.Flush() of the header
FlushHeader ==
  /\ pc = "header"
  /\ file' = FlushTo(file, buf)
  /\ buf' = <<>>
  /\ pc' = "ticker"
  /\ UNCHANGED <<calcVars, rtVars, k8sVars, histVars, backend, interval, reachable, stop, tickPending, ticks, clock, starts>>
  /\ UNCHANGED <<exists, cycleVars, ghostVars>>

\* time.NewTicker panics on a non-positive duration; otherwise the first
\* collect() follows
NewTicker_noFirstCollect ==
  /\ pc = "ticker"
  /\ pc' = IF interval <= 0 THEN "panic" ELSE "select"
  /\ UNCHANGED <<calcVars, rtVars, k8sVars, histVars, backend, interval, reachable, stop, tickPending, ticks, clock, starts>>
  /\ UNCHANGED <<sinkVars, cycleVars, ghostVars>>
NewTicker ==
  /\ pc = "ticker"
  /\ pc' = IF interval <= 0 THEN "panic" ELSE "collect"
  /\ UNCHANGED <<calcVars, rtVars, k8sVars, histVars, backend, interval, reachable, stop, tickPending, ticks, clock, starts>>
  /\ UNCHANGED <<sinkVars, cycleVars, ghostVars>>

\* the runtime ticker sends on ticker.C every interval; a tick that finds the
\* channel full is dropped
Tick ==
  /\ pc \in LoopPCs
  /\ ticks < MaxTicks
  /\ ticks' = ticks + 1
  /\ tickPending' = TRUE
  /\ clock' = clock + interval * MsPerSecond
  /\ UNCHANGED <<calcVars, rtVars, k8sVars, histVars, pc, backend, interval, reachable, stop, starts>>
  /\ UNCHANGED <<sinkVars, cycleVars, ghostVars>>

\* the ticker keeps firing after the ticks that are followed; a tick finding
\* the channel full is dropped
TickAgain ==
  /\ pc \in LoopPCs
  /\ ticks = MaxTicks
  /\ ~tickPending
  /\ tickPending' = TRUE
  /\ UNCHANGED <<calcVars, rtVars, k8sVars, histVars, pc, backend, interval, reachable, stop, ticks, clock, starts>>
  /\ UNCHANGED <<sinkVars, cycleVars, ghostVars>>

\* ------------------------------------------------------------ Docker cycle
\* where collect returns to after a failed list call: the select of the loop
OnListError_fatal == "fatal"
OnListError_retry == "list"
OnListError == "select"

\* collect() is entered: the closure of runDockerDaemon returns at once when
\* stopped(), else sends ContainerList; the closure of runK8sDaemon sends
\* Pods.List
CollectBegin_keepsLocals ==
  /\ pc = "collect"
  /\ collectCalls' = Counted(collectCalls, MaxTicks + 2)
  /\ cycleAfterStop' = stop
  /\ stopMidCycle' = FALSE
  /\ cycleBase' = Len(file)
  /\ prevEnd' = cycleEnd
  /\ idx' = 1
  /\ UNCHANGED <<containers, tasks, results, limitsMap, podItems, metricItems>>
  /\ cycleStartClock' = clock
  /\ prevTasks' = tasks
  /\ IF backend = "docker"
       THEN IF stop THEN pc' = "select" /\ cycleEnd' = "stopped"
                    ELSE pc' = "list" /\ cycleEnd' = "running"
       ELSE pc' = "pods" /\ cycleEnd' = "running"
  /\ UNCHANGED <<calcVars, rtVars, listClock, firstDone, backend, interval, reachable, stop, tickPending, ticks, clock, starts>>
  /\ UNCHANGED <<sinkVars, ts, ticksReceived, acked, lost>>
CollectBegin ==
  /\ pc = "collect"
  /\ collectCalls' = Counted(collectCalls, MaxTicks + 2)
  /\ cycleAfterStop' = stop
  /\ stopMidCycle' = FALSE
  /\ cycleBase' = Len(file)
  /\ prevEnd' = cycleEnd
  /\ containers' = <<>> /\ tasks' = <<>> /\ results' = <<>> /\ idx' = 1
  /\ limitsMap' = <<>> /\ podItems' = <<>> /\ metricItems' = <<>>
  /\ cycleStartClock' = clock
  /\ prevTasks' = tasks
  /\ IF backend = "docker"
       THEN IF stop THEN pc' = "select" /\ cycleEnd' = "stopped"
                    ELSE pc' = "list" /\ cycleEnd' = "running"
       ELSE pc' = "pods" /\ cycleEnd' = "running"
  /\ UNCHANGED <<calcVars, rtVars, listClock, firstDone, backend, interval, reachable, stop, tickPending, ticks, clock, starts>>
  /\ UNCHANGED <<sinkVars, ts, ticksReceived, acked, lost>>

\* ContainerList returns; on success ts is read, the slots are made and one
\* goroutine per container is started
ContainerListReturn(ok, enum) ==
  /\ pc = "list"
  /\ ok => reachable
  /\ IF ok
       THEN /\ containers' = enum
            /\ ts' = clock
            /\ listClock' = clock
            /\ firstDone' = 0
            /\ results' = [i \in 1..Len(enum) |-> ZeroResult]
            /\ tasks' = [i \in 1..Len(enum) |-> "running"]
            /\ pc' = "fetch"
            /\ UNCHANGED cycleEnd
       ELSE /\ pc' = OnListError
            /\ cycleEnd' = "listfail"
            /\ UNCHANGED <<containers, ts, results, tasks, listClock, firstDone>>
  /\ UNCHANGED <<calcVars, rtVars, k8sVars, cycleStartClock, prevTasks, backend, interval, reachable, stop, tickPending, ticks, clock, starts>>
  /\ UNCHANGED <<sinkVars, idx, limitsMap>>
  /\ UNCHANGED <<collectCalls, ticksReceived, cycleAfterStop, stopMidCycle, cycleBase,
                 prevEnd, acked, lost>>

\* goroutine i: ContainerStats and the decode succeed and slot i is stored, or
\* one of them fails and the goroutine returns with its slot untouched
FetchDone_failureClearsSlots(i, ok) ==
  /\ pc = "fetch"
  /\ i \in 1..Len(tasks)
  /\ tasks[i] = "running"
  /\ ok => reachable
  /\ tasks' = [tasks EXCEPT ![i] = IF ok THEN "ok" ELSE "failed"]
  /\ results' = IF ok THEN [results EXCEPT ![i] = DockerResult(containers[i])]
                ELSE [j \in 1..Len(results) |-> ZeroResult]
  /\ firstDone' = IF firstDone = 0 THEN i ELSE firstDone
  /\ UNCHANGED <<calcVars, rtVars, k8sVars, cycleStartClock, listClock, prevTasks, schedVars, sinkVars, containers, idx, ts, limitsMap, ghostVars>>
FetchDone_appendsResult(i, ok) ==
  /\ pc = "fetch"
  /\ i \in 1..Len(tasks)
  /\ tasks[i] = "running"
  /\ ok => reachable
  /\ tasks' = [tasks EXCEPT ![i] = IF ok THEN "ok" ELSE "failed"]
  /\ results' = IF ok
                THEN [results EXCEPT ![1 + Cardinality({j \in 1..Len(tasks) : tasks[j] = "ok"})] =
                                        DockerResult(containers[i])]
                ELSE results
  /\ firstDone' = IF firstDone = 0 THEN i ELSE firstDone
  /\ UNCHANGED <<calcVars, rtVars, k8sVars, cycleStartClock, listClock, prevTasks, schedVars, sinkVars, containers, idx, ts, limitsMap, ghostVars>>
FetchDone_capturedIndex(i, ok) ==
  /\ pc = "fetch"
  /\ i \in 1..Len(tasks)
  /\ tasks[i] = "running"
  /\ ok => reachable
  /\ tasks' = [tasks EXCEPT ![i] = IF ok THEN "ok" ELSE "failed"]
  /\ results' = IF ok THEN [results EXCEPT ![Len(results)] = DockerResult(containers[Len(containers)])]
                ELSE results
  /\ firstDone' = IF firstDone = 0 THEN i ELSE firstDone
  /\ UNCHANGED <<calcVars, rtVars, k8sVars, cycleStartClock, listClock, prevTasks, schedVars, sinkVars, containers, idx, ts, limitsMap, ghostVars>>
FetchDone(i, ok) ==
  /\ pc = "fetch"
  /\ i \in 1..Len(tasks)
  /\ tasks[i] = "running"
  /\ ok => reachable
  /\ tasks' = [tasks EXCEPT ![i] = IF ok THEN "ok" ELSE "failed"]
  /\ results' = IF ok THEN [results EXCEPT ![i] = DockerResult(containers[i])]
                ELSE results
  /\ firstDone' = IF firstDone = 0 THEN i ELSE firstDone
  /\ UNCHANGED <<calcVars, rtVars, k8sVars, cycleStartClock, listClock, prevTasks, schedVars, sinkVars, containers, idx, ts, limitsMap, ghostVars>>

\* wg.Wait() returns
WaitDone_readsClock ==
  /\ pc = "fetch"
  /\ \A i \in 1..Len(tasks) : tasks[i] # "running"
  /\ pc' = "write"
  /\ idx' = 1
  /\ ts' = clock
  /\ UNCHANGED <<calcVars, rtVars, k8sVars, histVars, backend, interval, reachable, stop, tickPending, ticks, clock, starts>>
  /\ UNCHANGED <<sinkVars, containers, tasks, results, limitsMap, ghostVars>>
WaitDone_noBarrier ==
  /\ pc = "fetch"
  /\ pc' = "write"
  /\ idx' = 1
  /\ UNCHANGED <<calcVars, rtVars, k8sVars, histVars, backend, interval, reachable, stop, tickPending, ticks, clock, starts>>
  /\ UNCHANGED <<sinkVars, containers, tasks, results, ts, limitsMap, ghostVars>>
WaitDone ==
  /\ pc = "fetch"
  /\ \A i \in 1..Len(tasks) : tasks[i] # "running"
  /\ pc' = "write"
  /\ idx' = 1
  /\ UNCHANGED <<calcVars, rtVars, k8sVars, histVars, backend, interval, reachable, stop, tickPending, ticks, clock, starts>>
  /\ UNCHANGED <<sinkVars, containers, tasks, results, ts, limitsMap, ghostVars>>

\* -------------------------------------------------------- Kubernetes cycle
\* Pods.List returns; on success the limits index is built and
\* PodMetricses.List is sent
PodsListReturn(ok, pods) ==
  /\ pc = "pods"
  /\ ok => reachable
  /\ IF ok
       THEN /\ podItems' = pods
            /\ limitsMap' = LimitsMap(pods)
            /\ pc' = "metrics"
            /\ UNCHANGED cycleEnd
       ELSE /\ pc' = OnListError
            /\ cycleEnd' = "podsfail"
            /\ UNCHANGED <<limitsMap, podItems>>
  /\ UNCHANGED <<calcVars, rtVars, metricItems, histVars, backend, interval, reachable, stop, tickPending, ticks, clock, starts>>
  /\ UNCHANGED <<sinkVars, containers, tasks, results, idx, ts>>
  /\ UNCHANGED <<collectCalls, ticksReceived, cycleAfterStop, stopMidCycle, cycleBase,
                 prevEnd, acked, lost>>

\* PodMetricses.List returns; on success ts is read and the rows follow
MetricsListReturn_ignoresError(ok, items) ==
  /\ pc = "metrics"
  /\ ok => reachable
  /\ metricItems' = items
  /\ ts' = clock
  /\ listClock' = clock
  /\ results' = K8sRows(limitsMap, items, 1)
  /\ idx' = 1
  /\ pc' = "write"
  /\ cycleEnd' = IF ok THEN cycleEnd ELSE "metricsfail"
  /\ UNCHANGED <<calcVars, rtVars, podItems, cycleStartClock, prevTasks, firstDone, backend, interval, reachable, stop, tickPending, ticks, clock, starts>>
  /\ UNCHANGED <<sinkVars, containers, tasks, limitsMap>>
  /\ UNCHANGED <<collectCalls, ticksReceived, cycleAfterStop, stopMidCycle, cycleBase,
                 prevEnd, acked, lost>>
MetricsListReturn(ok, items) ==
  /\ pc = "metrics"
  /\ ok => reachable
  /\ IF ok
       THEN /\ metricItems' = items
            /\ ts' = clock
            /\ listClock' = clock
            /\ results' = K8sRows(limitsMap, items, 1)
            /\ idx' = 1
            /\ pc' = "write"
            /\ UNCHANGED cycleEnd
       ELSE /\ pc' = OnListError
            /\ cycleEnd' = "metricsfail"
            /\ UNCHANGED <<ts, results, idx, metricItems, listClock>>
  /\ UNCHANGED <<calcVars, rtVars, podItems, cycleStartClock, prevTasks, firstDone, backend, interval, reachable, stop, tickPending, ticks, clock, starts>>
  /\ UNCHANGED <<sinkVars, containers, tasks, limitsMap>>
  /\ UNCHANGED <<collectCalls, ticksReceived, cycleAfterStop, stopMidCycle, cycleBase,
                 prevEnd, acked, lost>>

\* -------------------------------------------------------------- write loop
\* the loop over results skips a slot no goroutine filled (r.name == "")
SkipSlot ==
  /\ pc = "write"
  /\ backend = "docker"
  /\ idx <= Len(results)
  /\ results[idx].name = <<>>
  /\ idx' = idx + 1
  /\ UNCHANGED <<calcVars, rtVars, k8sVars, histVars, schedVars, sinkVars, containers, tasks, results, ts, limitsMap,
                 ghostVars>>

\* writeRow up to w.Write: the formatted record enters the writer's buffer
WriteRow_checksStop ==
  /\ pc = "write"
  /\ idx <= Len(results)
  /\ backend = "docker" => results[idx].name # <<>>
  /\ IF stop
       THEN pc' = "select" /\ cycleEnd' = "wrote" /\ UNCHANGED buf
       ELSE /\ buf' = Append(buf, RowOf(ts, results[idx].name, results[idx].cpuPct,
                                        results[idx].memUsage, results[idx].memLimit,
                                        results[idx].memPct))
            /\ pc' = "flush"
            /\ UNCHANGED cycleEnd
  /\ UNCHANGED <<calcVars, rtVars, k8sVars, histVars, backend, interval, reachable, stop, tickPending, ticks, clock, starts>>
  /\ UNCHANGED <<exists, file, cycleVars>>
  /\ UNCHANGED <<collectCalls, ticksReceived, cycleAfterStop, stopMidCycle, cycleBase,
                 prevEnd, acked, lost>>
WriteRow_writesEmptySlots ==
  /\ pc = "write"
  /\ idx <= Len(results)
  /\ buf' = Append(buf, RowOf(ts, results[idx].name, results[idx].cpuPct,
                              results[idx].memUsage, results[idx].memLimit,
                              results[idx].memPct))
  /\ pc' = "flush"
  /\ UNCHANGED <<calcVars, rtVars, k8sVars, histVars, backend, interval, reachable, stop, tickPending, ticks, clock, starts>>
  /\ UNCHANGED <<exists, file, cycleVars, ghostVars>>
WriteRow_nowPerRow ==
  /\ pc = "write"
  /\ idx <= Len(results)
  /\ backend = "docker" => results[idx].name # <<>>
  /\ buf' = Append(buf, RowOf(clock, results[idx].name, results[idx].cpuPct,
                              results[idx].memUsage, results[idx].memLimit,
                              results[idx].memPct))
  /\ pc' = "flush"
  /\ UNCHANGED <<calcVars, rtVars, k8sVars, histVars, backend, interval, reachable, stop, tickPending, ticks, clock, starts>>
  /\ UNCHANGED <<exists, file, cycleVars, ghostVars>>
WriteRow ==
  /\ pc = "write"
  /\ idx <= Len(results)
  /\ backend = "docker" => results[idx].name # <<>>
  /\ buf' = Append(buf, RowOf(ts, results[idx].name, results[idx].cpuPct,
                              results[idx].memUsage, results[idx].memLimit,
                              results[idx].memPct))
  /\ pc' = "flush"
  /\ UNCHANGED <<calcVars, rtVars, k8sVars, histVars, backend, interval, reachable, stop, tickPending, ticks, clock, starts>>
  /\ UNCHANGED <<exists, file, cycleVars, ghostVars>>

\* writeRow: w.Flush(), then the return to the loop
FlushRow_deferred ==
  /\ pc = "flush"
  /\ acked' = acked \o buf
  /\ pc' = "write"
  /\ idx' = idx + 1
  /\ UNCHANGED <<calcVars, rtVars, k8sVars, histVars, backend, interval, reachable, stop, tickPending, ticks, clock, starts>>
  /\ UNCHANGED <<sinkVars, containers, tasks, results, ts, limitsMap>>
  /\ UNCHANGED <<collectCalls, ticksReceived, cycleAfterStop, stopMidCycle, cycleBase,
                 cycleEnd, prevEnd, lost>>
FlushRow ==
  /\ pc = "flush"
  /\ file' = FlushTo(file, buf)
  /\ acked' = acked \o buf
  /\ buf' = <<>>
  /\ pc' = "write"
  /\ idx' = idx + 1
  /\ UNCHANGED <<calcVars, rtVars, k8sVars, histVars, backend, interval, reachable, stop, tickPending, ticks, clock, starts>>
  /\ UNCHANGED <<exists, containers, tasks, results, ts, limitsMap>>
  /\ UNCHANGED <<collectCalls, ticksReceived, cycleAfterStop, stopMidCycle, cycleBase,
                 cycleEnd, prevEnd, lost>>

\* the loop over results ends and collect returns
CycleDone_early ==
  /\ pc = "write"
  /\ pc' = "select"
  /\ firstDone' = 0
  /\ cycleEnd' = "wrote"
  /\ UNCHANGED <<calcVars, rtVars, k8sVars, cycleStartClock, listClock, prevTasks, backend, interval, reachable, stop, tickPending, ticks, clock, starts>>
  /\ UNCHANGED <<sinkVars, cycleVars>>
  /\ UNCHANGED <<collectCalls, ticksReceived, cycleAfterStop, stopMidCycle, cycleBase,
                 prevEnd, acked, lost>>
CycleDone ==
  /\ pc = "write"
  /\ idx > Len(results)
  /\ pc' = "select"
  /\ firstDone' = 0
  /\ cycleEnd' = "wrote"
  /\ UNCHANGED <<calcVars, rtVars, k8sVars, cycleStartClock, listClock, prevTasks, backend, interval, reachable, stop, tickPending, ticks, clock, starts>>
  /\ UNCHANGED <<sinkVars, cycleVars>>
  /\ UNCHANGED <<collectCalls, ticksReceived, cycleAfterStop, stopMidCycle, cycleBase,
                 prevEnd, acked, lost>>

\* --------------------------------------------------------------- scheduler
\* select: case <-stopCh
SelectStop_whenNoTick ==
  /\ pc = "select"
  /\ stop
  /\ ~tickPending
  /\ pc' = "returned"
  /\ UNCHANGED <<calcVars, rtVars, k8sVars, histVars, backend, interval, reachable, stop, tickPending, ticks, clock, starts>>
  /\ UNCHANGED <<sinkVars, cycleVars, ghostVars>>
SelectStop ==
  /\ pc = "select"
  /\ stop
  /\ pc' = "returned"
  /\ UNCHANGED <<calcVars, rtVars, k8sVars, histVars, backend, interval, reachable, stop, tickPending, ticks, clock, starts>>
  /\ UNCHANGED <<sinkVars, cycleVars, ghostVars>>

\* select: case <-ticker.C
SelectTick_duringCycle ==
  /\ pc \in {"select"} \cup CyclePCs
  /\ tickPending
  /\ tickPending' = FALSE
  /\ ticksReceived' = Counted(ticksReceived, MaxTicks + 1)
  /\ pc' = "collect"
  /\ UNCHANGED <<calcVars, rtVars, k8sVars, histVars, backend, interval, reachable, stop, ticks, clock, starts>>
  /\ UNCHANGED <<sinkVars, cycleVars>>
  /\ UNCHANGED <<collectCalls, cycleAfterStop, stopMidCycle, cycleBase, cycleEnd,
                 prevEnd, acked, lost>>
SelectTick ==
  /\ pc = "select"
  /\ tickPending
  /\ tickPending' = FALSE
  /\ ticksReceived' = Counted(ticksReceived, MaxTicks + 1)
  /\ pc' = "collect"
  /\ UNCHANGED <<calcVars, rtVars, k8sVars, histVars, backend, interval, reachable, stop, ticks, clock, starts>>
  /\ UNCHANGED <<sinkVars, cycleVars>>
  /\ UNCHANGED <<collectCalls, cycleAfterStop, stopMidCycle, cycleBase, cycleEnd,
                 prevEnd, acked, lost>>

\* ----------------------------------------------------- process end, restart
RECURSIVE CountRows(_)
CountRows(lines) ==
  IF lines = <<>> THEN 0
  ELSE (IF Head(lines) = csvHeader THEN 0 ELSE 1) + CountRows(Tail(lines))

\* SIGKILL: the process is gone with whatever its buffer held
Kill ==
  /\ pc \in StartupPCs \cup LoopPCs
  /\ pc' = "killed"
  /\ lost' = lost + CountRows(buf)
  /\ buf' = <<>>
  /\ UNCHANGED <<calcVars, rtVars, k8sVars, histVars, backend, interval, reachable, stop, tickPending, ticks, clock, starts>>
  /\ UNCHANGED <<exists, file, cycleVars>>
  /\ UNCHANGED <<collectCalls, ticksReceived, cycleAfterStop, stopMidCycle, cycleBase,
                 cycleEnd, prevEnd, acked>>

\* the process has ended (return, log.Fatalf, panic or kill); the path can be
\* given to the next process
Exited ==
  /\ pc \in EndPCs
  /\ starts < MaxStarts
  /\ pc' = "idle"
  /\ UNCHANGED <<calcVars, rtVars, k8sVars, histVars, backend, interval, reachable, stop, tickPending, ticks, clock, starts>>
  /\ UNCHANGED <<sinkVars, cycleVars, ghostVars>>

\* ---------------------------------------------------------- specifications
vars == <<schedVars, sinkVars, cycleVars, ghostVars, rtVars, k8sVars, histVars, calcVars>>

Init ==
  /\ pc = "idle"
  /\ backend = "docker"
  /\ interval = 1
  /\ reachable = TRUE
  /\ stop = FALSE
  /\ tickPending = FALSE
  /\ ticks = 0
  /\ clock = 0
  /\ starts = 0
  /\ exists \in BOOLEAN
  /\ file = <<>>
  /\ buf = <<>>
  /\ containers = <<>> /\ tasks = <<>> /\ results = <<>> /\ idx = 1
  /\ ts = 0 /\ limitsMap = <<>>
  /\ collectCalls = 0 /\ ticksReceived = 0
  /\ cycleAfterStop = FALSE /\ stopMidCycle = FALSE
  /\ cycleBase = 0 /\ cycleEnd = "none" /\ prevEnd = "none"
  /\ acked = <<>> /\ lost = 0
  /\ rtPc = "start" /\ rtIn = <<>> /\ rtOut = [err |-> "", records |-> <<>>]
  /\ podItems = <<>> /\ metricItems = <<>>
  /\ cycleStartClock = 0 /\ listClock = 0 /\ prevTasks = <<>>
  /\ firstDone = 0
  /\ calcPc = "start" /\ calcIn = [kind |-> "none"]
  /\ calcOut = [res |-> ZeroResult, row |-> <<>>]

\* one run of the daemon
Next ==
  \/ \E b \in Backends, iv \in Intervals, r \in BOOLEAN : Start(b, iv, r)
  \/ Signal
  \/ \E ok \in BOOLEAN : DockerConnect(ok)
  \/ \E ok \in BOOLEAN : K8sConnect(ok)
  \/ \E ok \in BOOLEAN : OpenCSV(ok)
  \/ FlushHeader
  \/ NewTicker
  \/ Tick
  \/ CollectBegin
  \/ \E ok \in BOOLEAN, enum \in Enumerations : ContainerListReturn(ok, enum)
  \/ \E i \in 1..(MaxContainers + 1), ok \in BOOLEAN : FetchDone(i, ok)
  \/ WaitDone
  \/ \E ok \in BOOLEAN, pods \in PodLists : PodsListReturn(ok, pods)
  \/ \E ok \in BOOLEAN, items \in MetricLists : MetricsListReturn(ok, items)
  \/ SkipSlot
  \/ WriteRow
  \/ FlushRow
  \/ CycleDone
  \/ SelectStop
  \/ SelectTick

Spec == Init /\ [][Next]_vars

\* runs of the daemon against one output path, one process at a time, each
\* ended by its return, a fatal error or a kill
SinkEnumerations == {e \in Enumerations : Len(e) <= 1}
SinkMetricLists ==
  {m \in MetricLists : m = <<>> \/ m[1].containers = SubSeq(MetricsWeb, 1, 1)}

NextRestart ==
  \/ \E b \in Backends : Start(b, 1, TRUE)
  \/ Signal
  \/ \E ok \in BOOLEAN : DockerConnect(ok)
  \/ \E ok \in BOOLEAN : K8sConnect(ok)
  \/ \E ok \in BOOLEAN : OpenCSV(ok)
  \/ FlushHeader
  \/ NewTicker
  \/ Tick
  \/ CollectBegin
  \/ \E ok \in BOOLEAN, enum \in SinkEnumerations : ContainerListReturn(ok, enum)
  \/ \E ok \in BOOLEAN : FetchDone(1, ok)
  \/ WaitDone
  \/ \E ok \in BOOLEAN, pods \in PodLists : PodsListReturn(ok, pods)
  \/ \E ok \in BOOLEAN, items \in SinkMetricLists : MetricsListReturn(ok, items)
  \/ SkipSlot
  \/ WriteRow
  \/ FlushRow
  \/ CycleDone
  \/ SelectStop
  \/ SelectTick
  \/ Kill
  \/ Exited

SpecRestart == Init /\ [][NextRestart]_vars

\* ----------------------------------------------- writer-then-reader round trip
\* the samples handed to writeRow in the round trip: timestamps with and
\* without a sub-second part, names as the two backends build them, values
\* that fall between hundredths (1/8 and 3/8 are ties)
RTTimes == {1999, 61500}
RTNames == { <<"web">>, <<"unknown">>, <<"ns", "/", "web">> }
RTValues ==
  << RInt(0), Rat(1, 8), Rat(3, 8), Rat(2, 3), RInt(40), Rat(25000, 1024),
     RInt(250), Rat(1, 8) >>
RTSamples ==
  { [ts |-> t, name |-> nm, cpuPct |-> RTValues[i], memUsage |-> RTValues[i + 1],
     memLimit |-> RTValues[i + 2], memPct |-> RTValues[i + 3]] :
      t \in RTTimes, nm \in RTNames, i \in 1..(Len(RTValues) - 3) }

\* openCSV on the path, absent or empty
RTOpen ==
  /\ rtPc = "start"
  /\ exists' = TRUE
  /\ file' = IF NeedHeader(exists, file) THEN FlushTo(file, <<csvHeader>>) ELSE file
  /\ rtPc' = "append"
  /\ UNCHANGED <<calcVars, k8sVars, histVars, schedVars, buf, cycleVars, ghostVars, rtIn, rtOut>>

\* writeRow of one sample
RTAppend(smp) ==
  /\ rtPc = "append"
  /\ Len(rtIn) < MaxSamples
  /\ file' = FlushTo(file, << RowOf(smp.ts, smp.name, smp.cpuPct, smp.memUsage,
                                    smp.memLimit, smp.memPct) >>)
  /\ rtIn' = Append(rtIn, smp)
  /\ UNCHANGED <<calcVars, k8sVars, histVars, schedVars, exists, buf, cycleVars, ghostVars, rtPc, rtOut>>

\* loadCSV of the file
RTLoad ==
  /\ rtPc = "append"
  /\ rtOut' = loadCSV(file)
  /\ rtPc' = "loaded"
  /\ UNCHANGED <<calcVars, k8sVars, histVars, schedVars, sinkVars, cycleVars, ghostVars, rtIn>>

NextRoundTrip ==
  \/ RTOpen
  \/ \E smp \in RTSamples : RTAppend(smp)
  \/ RTLoad

SpecRoundTrip == Init /\ [][NextRoundTrip]_vars

\* ------------------------------------------------ one run, ticks without end
\* the answers of the list calls while the file has room for rows; with the
\* file full the backends report nothing running
LiveEnumerations == IF Len(file) <= MaxSamples THEN SinkEnumerations ELSE { <<>> }
LiveMetricLists == IF Len(file) <= MaxSamples THEN SinkMetricLists ELSE { <<>> }

\* the steps of the daemon itself that need no tick and no signal: startup,
\* and every step of a cycle once its backend call has returned
DaemonStep ==
  \/ \E ok \in BOOLEAN : DockerConnect(ok)
  \/ \E ok \in BOOLEAN : K8sConnect(ok)
  \/ \E ok \in BOOLEAN : OpenCSV(ok)
  \/ FlushHeader
  \/ NewTicker
  \/ CollectBegin
  \/ \E ok \in BOOLEAN, enum \in LiveEnumerations : ContainerListReturn(ok, enum)
  \/ \E ok \in BOOLEAN : FetchDone(1, ok)
  \/ WaitDone
  \/ \E ok \in BOOLEAN, pods \in PodLists : PodsListReturn(ok, pods)
  \/ \E ok \in BOOLEAN, items \in LiveMetricLists : MetricsListReturn(ok, items)
  \/ SkipSlot
  \/ WriteRow
  \/ FlushRow
  \/ CycleDone

NextLive ==
  \/ \E b \in Backends : Start(b, 1, TRUE)
  \/ Signal
  \/ Tick
  \/ TickAgain
  \/ DaemonStep
  \/ SelectStop
  \/ SelectTick

\* every backend call returns and the daemon goes on when it can; the select
\* chooses at random among its ready cases, so a case ready again and again
\* is chosen in the end
SpecLive ==
  /\ Init
  /\ [][NextLive]_vars
  /\ WF_vars(DaemonStep)
  /\ SF_vars(SelectStop)

\* ------------------------------------------- one sample, over all answers
\* the counters a stats answer can carry: the engine encodes unsigned integers
CpuCounters == {0, 100, 200}
SysCounters == {4000, 5000}
OnlineCPUs == {0, 1, 4}
MemUsages == {0, 10 * MiB, 300 * MiB}
MemLimits == {0, 1024 * MiB}
ReclaimValues == {0, 12 * MiB, 50 * MiB}
ReclaimMaps == UNION { [keys -> ReclaimValues] : keys \in SUBSET {"inactive_file", "cache"} }

CpuParts ==
  [ total_usage : CpuCounters, pre_total_usage : CpuCounters,
    system_cpu_usage : SysCounters, pre_system_cpu_usage : SysCounters,
    online_cpus : OnlineCPUs ]
MemParts == [ usage : MemUsages, limit : MemLimits, stats : ReclaimMaps ]

\* a stats answer with the CPU counters of c and the memory counters of m
Snapshot(c, m) ==
  [ total_usage |-> c.total_usage, pre_total_usage |-> c.pre_total_usage,
    system_cpu_usage |-> c.system_cpu_usage,
    pre_system_cpu_usage |-> c.pre_system_cpu_usage, online_cpus |-> c.online_cpus,
    usage |-> m.usage, limit |-> m.limit, stats |-> m.stats ]

\* every CPU part with the memory part of StatsWeb, and every memory part with
\* the CPU part of StatsWeb: the two computations share no input
DockerSnapshots ==
  { Snapshot(c, StatsWeb) : c \in CpuParts } \cup { Snapshot(StatsWeb, m) : m \in MemParts }

\* the limits a container spec can declare and the usage a metrics entry reports
K8sLimitMaps ==
  UNION { { l \in [keys -> {0, 200, 500, 256 * MiB}] :
              /\ "cpu" \in keys => l["cpu"] \in {0, 200, 500}
              /\ "memory" \in keys => l["memory"] \in {0, 256 * MiB} } :
          keys \in SUBSET {"cpu", "memory"} }
K8sUsages == [ name : {"app"}, cpuMillis : {0, 50, 250}, memBytes : {0, 16 * MiB, 128 * MiB} ]
K8sPodLists ==
  { <<>> } \cup
  { << [ns |-> <<"ns">>, name |-> <<"web">>,
        containers |-> << [name |-> "app", limits |-> l] >>] >> : l \in K8sLimitMaps }

\* json.NewDecoder(resp.Body).Decode(&stats) has filled stats
DecodeStats(s) ==
  /\ calcPc = "start"
  /\ calcIn' = [kind |-> "docker", stats |-> s]
  /\ calcPc' = "decoded"
  /\ UNCHANGED <<schedVars, sinkVars, cycleVars, ghostVars, rtVars, k8sVars, histVars, calcOut>>

\* the goroutine fills its slot; writeRow formats it
CalcDocker ==
  /\ calcPc = "decoded"
  /\ LET r == DockerResult([id |-> 1, names |-> << <<"/", "web">> >>, stats |-> calcIn.stats])
     IN  calcOut' = [res |-> r,
                     row |-> RowOf(0, r.name, r.cpuPct, r.memUsage, r.memLimit, r.memPct)]
  /\ calcPc' = "docker"
  /\ UNCHANGED <<schedVars, sinkVars, cycleVars, ghostVars, rtVars, k8sVars, histVars, calcIn>>

\* Pods.List and PodMetricses.List have answered
ListK8s(pods, cm) ==
  /\ calcPc = "start"
  /\ calcIn' = [kind |-> "k8s", pods |-> pods, cm |-> cm]
  /\ calcPc' = "listed"
  /\ UNCHANGED <<schedVars, sinkVars, cycleVars, ghostVars, rtVars, k8sVars, histVars, calcOut>>

\* the body of the inner loop for the one container entry; writeRow formats it
CalcK8s ==
  /\ calcPc = "listed"
  /\ LET pm == [ns |-> <<"ns">>, name |-> <<"web">>, containers |-> <<calcIn.cm>>]
         r == K8sResult(LimitsMap(calcIn.pods), pm, calcIn.cm)
     IN  calcOut' = [res |-> r,
                     row |-> RowOf(0, r.name, r.cpuPct, r.memUsage, r.memLimit, r.memPct)]
  /\ calcPc' = "k8s"
  /\ UNCHANGED <<schedVars, sinkVars, cycleVars, ghostVars, rtVars, k8sVars, histVars, calcIn>>

NextCalc ==
  \/ \E s \in DockerSnapshots : DecodeStats(s)
  \/ CalcDocker
  \/ \E pods \in K8sPodLists, cm \in K8sUsages : ListK8s(pods, cm)
  \/ CalcK8s

SpecCalc == Init /\ [][NextCalc]_vars

\* ------------------------------------------------------------------ claims
FailEnds == {"listfail", "podsfail", "metricsfail"}

IsPrefix(a, b) == Len(a) <= Len(b) /\ SubSeq(b, 1, Len(a)) = a

DataRows(lines) == SelectSeq(lines, LAMBDA l : l # csvHeader)

ResultRow(r, t) == RowOf(t, r.name, r.cpuPct, r.memUsage, r.memLimit, r.memPct)

\* the rows a Docker cycle owes: one per container whose fetch succeeded and
\* whose slot has a name, in enumeration order
RECURSIVE DockerOwed(_)
DockerOwed(i) ==
  IF i > Len(containers) THEN <<>>
  ELSE (IF tasks[i] = "ok" /\ DockerResult(containers[i]).name # <<>> THEN <<ResultRow(DockerResult(containers[i]), ts)>> ELSE <<>>)
         \o DockerOwed(i + 1)

\* the rows a Kubernetes cycle owes: one per container entry of the metrics list
K8sOwed == [i \in 1..Len(results) |-> ResultRow(results[i], ts)]

\* the cycle that has just ended ended by itself: a list call failed, or every
\* fetch was awaited and every row owed is in the file
CycleComplete ==
  \/ cycleEnd \in FailEnds
  \/ /\ cycleEnd = "wrote"
     /\ \A i \in 1..Len(tasks) : tasks[i] # "running"
     /\ buf = <<>>
     /\ SubSeq(file, cycleBase + 1, Len(file))
          = IF backend = "docker" THEN DockerOwed(1) ELSE K8sOwed

\* C1: after a successful startup collect runs once before any tick is
\* awaited and then once per tick taken from the timer, and the scheduler
\* returns only after the stop signal has fired.
C1_CollectOncePerTick ==
  /\ pc = "collect" => collectCalls = ticksReceived
  /\ pc \in CyclePCs \cup {"select", "returned"} => collectCalls = ticksReceived + 1
  /\ pc = "returned" => stop

C1_Witness ==
  /\ pc = "select"
  /\ ticksReceived = 1
  /\ collectCalls = 2
  /\ ~stop

\* C2: no failure inside a cycle ends the loop: from any position of the loop
\* the next position is again in the loop, except the return taken by the
\* select when the stop signal has fired; a failed list call leads to the
\* select, and a cycle ended by a failure leaves the process in the loop.
C2_FailuresNeverEndLoop ==
  [][ /\ pc \in LoopPCs =>
           \/ pc' \in LoopPCs
           \/ (pc = "select" /\ stop /\ pc' = "returned")
      /\ (pc \in CyclePCs /\ cycleEnd' \in FailEnds) => pc' = "select"
    ]_vars

C2_Witness ==
  /\ prevEnd \in FailEnds
  /\ pc \in CyclePCs
  /\ ~stop

\* C3: a cycle in progress when the stop signal fires runs to its end: while
\* the signal is set the cycle is left only for the select, and when the
\* scheduler is back at the select (or has returned) after such a cycle,
\* either a list call had failed or all fetches were awaited and all rows owed
\* were written.
C3_InFlightCycleFinishes ==
  /\ []((stopMidCycle /\ pc \in {"select", "returned"}) => CycleComplete)
  /\ [][(stop /\ pc \in CyclePCs) => pc' \in CyclePCs \cup {"select"}]_vars

C3_Witness ==
  /\ pc = "returned"
  /\ stopMidCycle
  /\ cycleEnd = "wrote"
  /\ Len(file) > cycleBase

\* C4: once the stop signal has fired, no cycle that begins afterwards sends a
\* backend request or writes a row, for both backends.
C4_NoCycleAfterStop == ~(cycleAfterStop /\ pc \in CyclePCs)

\* C5: a start with interval <= 0 is refused as a configuration error before
\* the loop: the process neither enters the loop nor panics.
C5_NonPositiveIntervalRefused ==
  interval <= 0 => pc \notin ({"panic"} \cup LoopPCs)

\* C6: when the engine or the cluster cannot be reached at startup, or the
\* output path cannot be opened, the loop is never entered.
C6_NoLoopWithoutConnectivity == pc \in LoopPCs => reachable

\* C7: over starts, appends, stops and kills against one path that was absent
\* or empty, the file has exactly one header row, at line 1; the header is
\* written only into an empty file and every started daemon finds it there.
C7_OneHeaderAtLineOne ==
  /\ file # <<>> =>
       /\ file[1] = csvHeader
       /\ \A i \in 2..Len(file) : file[i] # csvHeader
  /\ pc = "header" => file = <<>>
  /\ pc \in {"ticker"} \cup LoopPCs => file # <<>>

C7_Witness ==
  /\ starts = 2
  /\ pc = "select"
  /\ Len(file) >= 3
  /\ cycleBase >= 2

\* C8: every step leaves the old file content as a prefix of the new one and
\* never removes the file; an append adds exactly one row at the end and no
\* step adds more than one line.
C8_AppendOnly ==
  [][ /\ IsPrefix(file, file')
      /\ exists => exists'
      /\ Len(file') <= Len(file) + 1
      /\ (pc = "flush" /\ pc' = "write") =>
           (Len(file') = Len(file) + 1 /\ file'[Len(file')] # csvHeader)
    ]_vars

C8_Witness ==
  /\ starts = 2
  /\ pc = "write"
  /\ idx > 1
  /\ Len(file) > cycleBase
  /\ cycleBase >= 2

\* C9: a row is in the file when its writeRow returns: outside writeRow (and
\* the header write of openCSV) the buffer is empty, it never holds more than
\* one row, every row whose append returned is in the file, and each kill
\* drops at most one row.
C9_FlushedBeforeReturn ==
  /\ pc \notin {"header", "flush"} => buf = <<>>
  /\ Len(buf) <= 1
  /\ DataRows(file) = acked
  /\ lost <= starts

C9_Witness ==
  /\ pc = "killed"
  /\ lost = 1
  /\ acked # <<>>

\* a parsed value is the hundredth nearest to the appended value
Near2(parsed, v) ==
  /\ 100 % parsed.den = 0
  /\ 200 * Abs(parsed.num * v.den - v.num * parsed.den) <= parsed.den * v.den

C11_ListFailureSkipsCycle ==
  /\ []((backend = "docker" /\ cycleEnd = "listfail" /\ pc \notin EndPCs \ {"returned"}) =>
          /\ pc \in {"select", "collect", "returned"}
          /\ tasks = <<>>
          /\ containers = <<>>
          /\ buf = <<>>
          /\ Len(file) = cycleBase)
  /\ [][(backend = "docker" /\ pc = "list" /\ cycleEnd' = "listfail") =>
          (pc' = "select" /\ file' = file /\ tasks' = <<>>)]_vars
  /\ [][(backend = "docker" /\ cycleEnd = "listfail" /\ pc = "collect" /\ ~stop
            /\ pc' # "collect") =>
          (pc' = "list" /\ cycleEnd' = "running")]_vars

C11_Witness ==
  /\ backend = "docker"
  /\ prevEnd = "listfail"
  /\ pc = "fetch"
  /\ Len(tasks) >= 1
  /\ Len(file) = cycleBase

\* C12: a failed fetch or decode costs a Docker cycle only the row of that
\* container: one task per enumerated container is started, a task that ends
\* changes no other task and no other slot, a failed task stays failed for the
\* rest of the cycle, and when the cycle has ended every task has ended and
\* the rows of the cycle are exactly one row per succeeded container whose
\* slot has a name, in enumeration order, each made from that container's own
\* sample alone.
C12_FailureCostsOneRow ==
  /\ []((backend = "docker" /\ pc \in {"fetch", "write", "flush"}) =>
          (Len(tasks) = Len(containers) /\ Len(results) = Len(containers)))
  /\ []((backend = "docker" /\ cycleEnd = "wrote" /\ pc \in {"select", "collect", "returned"}) =>
          /\ \A i \in 1..Len(tasks) : tasks[i] # "running"
          /\ SubSeq(file, cycleBase + 1, Len(file)) = DockerOwed(1))
  /\ [][(backend = "docker" /\ pc \in {"fetch", "write", "flush"}
                            /\ pc' \in {"fetch", "write", "flush"}) =>
          \A i \in 1..Len(tasks) :
             /\ tasks[i] = "failed" => tasks'[i] = "failed"
             /\ tasks'[i] # tasks[i] =>
                  \A j \in (1..Len(tasks)) \ {i} :
                     tasks'[j] = tasks[j] /\ results'[j] = results[j]]_vars

C12_Witness ==
  /\ backend = "docker"
  /\ cycleEnd = "wrote"
  /\ pc = "select"
  /\ Len(tasks) = 2
  /\ tasks[1] = "failed"
  /\ tasks[2] = "ok"
  /\ Len(file) = cycleBase + 1
  /\ file[Len(file)] = ResultRow(DockerResult(containers[2]), ts)

\* C13: the wait is a barrier between the fetches and the rows of a Docker
\* cycle: while any task of the cycle is still running nothing of the cycle
\* is in the writer's buffer or in the file, nothing is written before the
\* wait has returned, and while rows are written no task is running.
C13_Barrier ==
  backend = "docker" =>
    /\ (\E i \in 1..Len(tasks) : tasks[i] = "running") =>
          (pc = "fetch" /\ buf = <<>> /\ Len(file) = cycleBase)
    /\ pc = "fetch" => (buf = <<>> /\ Len(file) = cycleBase)
    /\ pc \in {"write", "flush"} => \A i \in 1..Len(tasks) : tasks[i] \in {"ok", "failed"}

C13_Witness ==
  /\ backend = "docker"
  /\ pc = "flush"
  /\ Len(tasks) = 2
  /\ tasks[1] = "ok"
  /\ tasks[2] = "ok"
  /\ idx = 2
  /\ Len(file) = cycleBase + 1
  /\ buf # <<>>

\* C14: all rows of one cycle, of either backend, carry one timestamp: every
\* row the cycle has put into the file or into the writer's buffer has the
\* timestamp field of every other, the one formatted from the single clock
\* reading of the cycle, however far the clock has moved on since.
C14_OneTimestampPerCycle ==
  cycleEnd # "none" =>
    LET rows == SubSeq(file, cycleBase + 1, Len(file)) \o buf
    IN  /\ \A i, j \in 1..Len(rows) : rows[i][1] = rows[j][1]
        /\ \A i \in 1..Len(rows) : rows[i][1] = FormatRFC3339(ts)

C14_Witness ==
  /\ backend = "k8s"
  /\ cycleEnd = "wrote"
  /\ Len(file) >= cycleBase + 2
  /\ clock > ts
  /\ file[Len(file)][1] = file[cycleBase + 1][1]

\* C15 as claimed: the timestamp of a Docker cycle is the clock at the entry
\* of collect, before ContainerList is sent.
C15_TimestampAtCycleStart ==
  (backend = "docker" /\ pc \in {"fetch", "write", "flush"}) => ts = cycleStartClock

\* C15 as the code has it: the timestamp of a Docker cycle is the one clock
\* reading made when ContainerList has returned, at or after the entry of
\* collect and before any fetch has ended; no fetch and no write of the cycle
\* changes it.
C15_TimestampAfterEnumeration ==
  /\ []((backend = "docker" /\ pc \in {"fetch", "write", "flush"}) =>
          (ts = listClock /\ cycleStartClock <= ts /\ ts <= clock))
  /\ [][(backend = "docker" /\ pc = "list" /\ pc' = "fetch") =>
          (ts' = clock /\ \A i \in 1..Len(tasks') : tasks'[i] = "running")]_vars
  /\ [][(backend = "docker" /\ pc \in {"fetch", "write", "flush"}
                            /\ pc' \in {"fetch", "write", "flush"}) => ts' = ts]_vars

C15_Witness ==
  /\ backend = "docker"
  /\ pc = "flush"
  /\ cycleStartClock < ts
  /\ buf = <<ResultRow(DockerResult(containers[1]), ts)>>

\* C16: with a clock that never goes back, the timestamps of the data rows
\* of one run are non-decreasing in file order: no row stands before a row
\* with a smaller timestamp, the rows of the cycle in progress stand after
\* all rows of earlier cycles, and every step that adds rows adds them at the
\* end of the file.
C16_TimestampsNonDecreasing ==
  /\ [](\A i, j \in 1..Len(file) :
          (i < j /\ file[i] # csvHeader /\ file[j] # csvHeader) =>
             file[i][1].n <= file[j][1].n)
  /\ []((cycleEnd # "none" /\ pc \in CyclePCs) =>
          \A i \in 1..Len(file) :
             (i <= cycleBase /\ file[i] # csvHeader) => file[i][1].n <= ts)
  /\ [][Len(file') > Len(file) => SubSeq(file', 1, Len(file)) = file]_vars

C16_Witness ==
  /\ Len(file) >= 3
  /\ cycleBase >= 2
  /\ Len(file) > cycleBase
  /\ file[cycleBase][1].n < file[cycleBase + 1][1].n

\* C17: a Docker cycle writes no placeholder: every row the cycle has put
\* into the buffer or the file is the row of a container whose fetch and
\* decode succeeded in this cycle, no row has an empty name, and a container
\* whose task failed has an untouched slot and no row under its name.
C17_NoSentinelRows ==
  (backend = "docker" /\ cycleEnd # "none") =>
    LET rows == SubSeq(file, cycleBase + 1, Len(file)) \o buf
    IN  /\ \A k \in 1..Len(rows) :
              /\ rows[k][2] # Text(<<>>)
              /\ \E j \in 1..Len(tasks) :
                   /\ tasks[j] = "ok"
                   /\ rows[k] = ResultRow(DockerResult(containers[j]), ts)
        /\ \A j \in 1..Len(tasks) :
              tasks[j] = "failed" =>
                /\ results[j] = ZeroResult
                /\ \A k \in 1..Len(rows) :
                     rows[k][2] # Text(DockerResult(containers[j]).name)

C17_Witness ==
  /\ backend = "docker"
  /\ cycleEnd = "wrote"
  /\ Len(tasks) = 2
  /\ tasks[1] = "ok"
  /\ tasks[2] = "failed"
  /\ SubSeq(file, cycleBase + 1, Len(file)) = <<ResultRow(DockerResult(containers[1]), ts)>>

\* C18: a Kubernetes cycle in which Pods.List or PodMetricses.List fails
\* writes nothing: the failure leads straight to the select with the file and
\* the buffer as they were when the cycle began, nothing is written while
\* either call is outstanding, and the next tick starts a cycle that sends
\* Pods.List again.
C18_K8sListFailureSkipsCycle ==
  /\ []((backend = "k8s" /\ cycleEnd \in {"podsfail", "metricsfail"}
                         /\ pc \notin EndPCs \ {"returned"}) =>
          /\ pc \in {"select", "collect", "returned"}
          /\ results = <<>>
          /\ buf = <<>>
          /\ Len(file) = cycleBase)
  /\ []((backend = "k8s" /\ pc \in {"pods", "metrics"}) =>
          (buf = <<>> /\ Len(file) = cycleBase))
  /\ [][(backend = "k8s" /\ pc \in {"pods", "metrics"} /\ cycleEnd' \in FailEnds) =>
          (pc' = "select" /\ file' = file /\ buf' = buf)]_vars
  /\ [][(backend = "k8s" /\ cycleEnd \in FailEnds /\ pc = "collect" /\ pc' # "collect") =>
          (pc' = "pods" /\ cycleEnd' = "running")]_vars

C18_Witness ==
  /\ backend = "k8s"
  /\ prevEnd = "metricsfail"
  /\ pc = "metrics"
  /\ podItems # <<>>
  /\ Len(file) = cycleBase

\* the container entries of a metrics list, in the order of the two loops
RECURSIVE FlatMetrics(_, _)
FlatMetrics(items, p) ==
  IF p > Len(items) THEN <<>>
  ELSE [c \in 1..Len(items[p].containers) |-> [pm |-> items[p], cm |-> items[p].containers[c]]]
         \o FlatMetrics(items, p + 1)

\* the limits the pod list declares for the container of a metrics entry
OwnLimits(pods, e) ==
  { pods[p].containers[c].limits :
      <<p, c>> \in { x \in (1..Len(pods)) \X (1..MaxContainers + 1) :
                       /\ x[2] <= Len(pods[x[1]].containers)
                       /\ pods[x[1]].ns = e.pm.ns
                       /\ pods[x[1]].name = e.pm.name
                       /\ pods[x[1]].containers[x[2]].name = e.cm.name } }

\* the row of a metrics entry whose container the pod list does not have
UnlimitedRow(e, t) ==
  RowOf(t, e.pm.ns \o <<"/">> \o e.pm.name, RZero, Rat(e.cm.memBytes, MiB), RZero, RZero)

\* the row of a metrics entry from its own usage and its own declared limits
OwnRow(pods, e, t) ==
  IF OwnLimits(pods, e) = {} THEN UnlimitedRow(e, t)
  ELSE LET l == CHOOSE x \in OwnLimits(pods, e) : TRUE
           cpuLim == IF "cpu" \in DOMAIN l THEN l["cpu"] ELSE 0
           memLim == IF "memory" \in DOMAIN l THEN l["memory"] ELSE 0
       IN  RowOf(t, e.pm.ns \o <<"/">> \o e.pm.name,
                 IF cpuLim > 0 THEN RMul(Rat(e.cm.cpuMillis, cpuLim), RInt(100)) ELSE RZero,
                 Rat(e.cm.memBytes, MiB),
                 IF memLim > 0 THEN Rat(memLim, MiB) ELSE RZero,
                 IF memLim > 0 THEN RMul(Rat(e.cm.memBytes, memLim), RInt(100)) ELSE RZero)

\* C19: a container entry of the metrics list whose container the pod list
\* does not have still gets its row, with cpu_pct, mem_limit_mb and mem_pct
\* zero and its measured memory usage; the cycle ends as any other, with one
\* row per entry, and the rows of the other entries are those made from
\* their own limits.
C19_MissingLimitsGiveZeroes ==
  (backend = "k8s" /\ cycleEnd = "wrote") =>
    LET flat == FlatMetrics(metricItems, 1)
        rows == SubSeq(file, cycleBase + 1, Len(file))
    IN  /\ Len(rows) = Len(flat)
        /\ \A k \in 1..Len(flat) :
              IF OwnLimits(podItems, flat[k]) = {}
                THEN /\ rows[k] = UnlimitedRow(flat[k], ts)
                     /\ rows[k][3] = Sprintf2(RZero)
                     /\ rows[k][5] = Sprintf2(RZero)
                     /\ rows[k][6] = Sprintf2(RZero)
                ELSE rows[k] = OwnRow(podItems, flat[k], ts)

C19_Witness ==
  /\ backend = "k8s"
  /\ cycleEnd = "wrote"
  /\ podItems = <<PodWeb>>
  /\ Len(metricItems) = 1
  /\ Len(metricItems[1].containers) = 2
  /\ metricItems[1].containers[1].name = "app"
  /\ metricItems[1].containers[2].name = "debug"
  /\ Len(file) = cycleBase + 2
  /\ file[Len(file)][4] # Sprintf2(RZero)
  /\ file[Len(file)][5] = Sprintf2(RZero)
  /\ file[cycleBase + 1][5] # Sprintf2(RZero)

\* C20: when both list calls have succeeded the cycle writes exactly one row
\* per container entry of the metrics list, in the order of the list; each
\* row carries the name namespace/pod of its pod and the timestamp of the
\* cycle, and its values come from the usage of that entry and the limits the
\* pod list declares for that very container, so the rows of one pod share
\* name and timestamp and differ in their values.
C20_OneRowPerContainerEntry ==
  (backend = "k8s" /\ pc \in {"write", "flush", "select", "collect", "returned"}
                  /\ cycleEnd \in {"running", "wrote"}) =>
    LET flat == FlatMetrics(metricItems, 1)
        rows == SubSeq(file, cycleBase + 1, Len(file)) \o buf
    IN  /\ Len(rows) <= Len(flat)
        /\ cycleEnd = "wrote" => Len(rows) = Len(flat)
        /\ \A k \in 1..Len(rows) :
              /\ rows[k][1] = FormatRFC3339(ts)
              /\ rows[k][2] = Text(flat[k].pm.ns \o <<"/">> \o flat[k].pm.name)
              /\ rows[k] = OwnRow(podItems, flat[k], ts)

C20_Witness ==
  /\ backend = "k8s"
  /\ cycleEnd = "wrote"
  /\ podItems = <<PodWeb>>
  /\ Len(metricItems) = 1
  /\ Len(metricItems[1].containers) = 2
  /\ metricItems[1].containers[1].name = "app"
  /\ metricItems[1].containers[2].name = "sidecar"
  /\ Len(file) = cycleBase + 2
  /\ file[cycleBase + 1][2] = file[cycleBase + 2][2]
  /\ file[cycleBase + 1][1] = file[cycleBase + 2][1]
  /\ file[cycleBase + 1][3] # file[cycleBase + 2][3]

\* the limit the pod list of the one-sample computation declares under key
\* for the container of the metrics entry, 0 when it declares none
CalcLimit(key) ==
  IF calcIn.pods = <<>> THEN 0
  ELSE LET l == calcIn.pods[1].containers[1].limits
       IN  IF key \in DOMAIN l THEN l[key] ELSE 0

\* the four numbers of a computed sample are numbers: no denominator is zero
CalcFinite ==
  /\ calcOut.res.cpuPct.den > 0
  /\ calcOut.res.memUsage.den > 0
  /\ calcOut.res.memLimit.den > 0
  /\ calcOut.res.memPct.den > 0

\* C21: a sample whose memory limit is 0 has mem_pct exactly 0, for both
\* backends and every usage; a Kubernetes sample whose CPU limit is 0 or not
\* declared has cpu_pct exactly 0; no computed number has a zero denominator.
C21_ZeroLimitZeroPct ==
  /\ calcPc = "docker" =>
       /\ CalcFinite
       /\ calcIn.stats.limit = 0 =>
            (calcOut.res.memPct = RZero /\ calcOut.row[6] = NumField(0))
  /\ calcPc = "k8s" =>
       /\ CalcFinite
       /\ CalcLimit("memory") = 0 =>
            (calcOut.res.memPct = RZero /\ calcOut.row[6] = NumField(0))
       /\ CalcLimit("cpu") = 0 =>
            (calcOut.res.cpuPct = RZero /\ calcOut.row[3] = NumField(0))

C21_Witness ==
  /\ calcPc = "k8s"
  /\ calcIn.pods # <<>>
  /\ DOMAIN calcIn.pods[1].containers[1].limits = {"cpu", "memory"}
  /\ CalcLimit("cpu") = 0
  /\ CalcLimit("memory") = 256 * MiB
  /\ calcIn.cm.cpuMillis = 250
  /\ calcIn.cm.memBytes = 128 * MiB
  /\ calcOut.row[3] = NumField(0)
  /\ calcOut.row[6] = NumField(5000)

\* C22: calcDockerCPU is exactly 0 when the system delta is not positive or
\* the usage delta is negative, and otherwise usage delta over system delta,
\* times the online CPUs (1 when 0 is reported), times 100; usage 200 after
\* 100 against system 5000 after 4000 on 4 CPUs is 40.
C22_DockerCPUFormula ==
  calcPc = "docker" =>
    LET s == calcIn.stats
        cpuDelta == s.total_usage - s.pre_total_usage
        sysDelta == s.system_cpu_usage - s.pre_system_cpu_usage
        cpus == IF s.online_cpus = 0 THEN 1 ELSE s.online_cpus
    IN  /\ (sysDelta <= 0 \/ cpuDelta < 0) => calcOut.res.cpuPct = RZero
        /\ (sysDelta > 0 /\ cpuDelta >= 0) =>
              calcOut.res.cpuPct = Rat(cpuDelta * cpus * 100, sysDelta)
        /\ (cpuDelta = 100 /\ sysDelta = 1000 /\ s.online_cpus = 4) =>
              (calcOut.res.cpuPct = RInt(40) /\ calcOut.row[3] = NumField(4000))

C22_Witness ==
  /\ calcPc = "docker"
  /\ calcIn.stats.total_usage = 200
  /\ calcIn.stats.pre_total_usage = 100
  /\ calcIn.stats.system_cpu_usage = 5000
  /\ calcIn.stats.pre_system_cpu_usage = 4000
  /\ calcIn.stats.online_cpus = 4
  /\ calcOut.res.cpuPct = RInt(40)

\* C23: cpu_pct of a Docker sample is never negative, whatever the current
\* and previous counters and the online CPU count of the stats answer are.
C23_DockerCPUNonNegative ==
  calcPc = "docker" =>
    /\ calcOut.res.cpuPct.num >= 0
    /\ calcOut.res.cpuPct.den > 0
    /\ calcOut.row[3].n >= 0

C23_Witness ==
  /\ calcPc = "docker"
  /\ calcIn.stats.total_usage < calcIn.stats.pre_total_usage
  /\ calcIn.stats.system_cpu_usage < calcIn.stats.pre_system_cpu_usage
  /\ calcIn.stats.online_cpus = 0
  /\ calcOut.res.cpuPct = RZero

\* the value of a reclaimable counter of the decoded stats, 0 when absent
Reclaimable(key) ==
  IF key \in DOMAIN calcIn.stats.stats THEN calcIn.stats.stats[key] ELSE 0

Max(a, b) == IF a >= b THEN a ELSE b

\* C24: calcDockerMem subtracts inactive_file when it is present and
\* positive, else cache when it is present and positive, else nothing; the
\* usage left (not below 0) over 1 MiB is mem_usage_mb, the limit over 1 MiB
\* is mem_limit_mb, and with a positive limit mem_pct is usage over limit
\* times 100: 300 MiB with 50 MiB inactive_file under 1024 MiB give 250.00
\* and 24.41.
C24_DockerMemFormula ==
  calcPc = "docker" =>
    LET s == calcIn.stats
        sub == IF Reclaimable("inactive_file") > 0 THEN Reclaimable("inactive_file")
               ELSE IF Reclaimable("cache") > 0 THEN Reclaimable("cache")
               ELSE 0
        left == Max(s.usage - sub, 0)
    IN  /\ calcOut.res.memUsage = Rat(left, MiB)
        /\ calcOut.res.memLimit = Rat(s.limit, MiB)
        /\ s.limit > 0 => calcOut.res.memPct = RMul(RInt(100), Rat(left, s.limit))
        /\ (s.usage = 300 * MiB /\ Reclaimable("inactive_file") = 50 * MiB
               /\ s.limit = 1024 * MiB) =>
              /\ calcOut.row[4] = NumField(25000)
              /\ calcOut.row[5] = NumField(102400)
              /\ calcOut.row[6] = NumField(2441)

C24_Witness ==
  /\ calcPc = "docker"
  /\ calcIn.stats.usage = 300 * MiB
  /\ calcIn.stats.limit = 1024 * MiB
  /\ DOMAIN calcIn.stats.stats = {"inactive_file"}
  /\ calcIn.stats.stats["inactive_file"] = 50 * MiB
  /\ calcOut.row[4] = NumField(25000)
  /\ calcOut.row[6] = NumField(2441)

\* C25 as claimed: when inactive_file and cache are both present and
\* positive, the amount taken off the raw usage is the larger of the two.
C25_SubtractsLargest ==
  (calcPc = "docker" /\ Reclaimable("inactive_file") > 0 /\ Reclaimable("cache") > 0
     /\ calcIn.stats.usage >= Max(Reclaimable("inactive_file"), Reclaimable("cache"))) =>
    calcOut.res.memUsage
      = Rat(calcIn.stats.usage - Max(Reclaimable("inactive_file"), Reclaimable("cache")), MiB)

\* C25 as the code has it: when inactive_file and cache are both present and
\* positive, the amount taken off the raw usage is inactive_file, also when
\* cache is the larger one; it is the larger of the two only when
\* inactive_file is not below cache.
C25_InactiveFileWins ==
  (calcPc = "docker" /\ Reclaimable("inactive_file") > 0 /\ Reclaimable("cache") > 0) =>
    /\ calcOut.res.memUsage
         = Rat(Max(calcIn.stats.usage - Reclaimable("inactive_file"), 0), MiB)
    /\ (Reclaimable("inactive_file") >= Reclaimable("cache")
           /\ calcIn.stats.usage >= Reclaimable("inactive_file")) =>
          calcOut.res.memUsage
            = Rat(calcIn.stats.usage
                    - Max(Reclaimable("inactive_file"), Reclaimable("cache")), MiB)

C25_Witness ==
  /\ calcPc = "docker"
  /\ calcIn.stats.usage = 300 * MiB
  /\ Reclaimable("inactive_file") = 12 * MiB
  /\ Reclaimable("cache") = 50 * MiB
  /\ calcOut.res.memUsage = RInt(288)

\* C26: the usage of a Docker sample is never negative: when the counter
\* taken off exceeds the raw usage the usage is 0, and mem_usage_mb and
\* mem_pct are never below 0.
C26_DockerMemNonNegative ==
  calcPc = "docker" =>
    /\ calcOut.res.memUsage.num >= 0 /\ calcOut.res.memUsage.den > 0
    /\ calcOut.res.memPct.num >= 0 /\ calcOut.res.memPct.den > 0
    /\ calcOut.row[4].n >= 0
    /\ calcOut.row[6].n >= 0
    /\ (Reclaimable("inactive_file") > calcIn.stats.usage) =>
          (calcOut.res.memUsage = RZero /\ calcOut.res.memPct = RZero)

C26_Witness ==
  /\ calcPc = "docker"
  /\ calcIn.stats.usage = 10 * MiB
  /\ Reclaimable("inactive_file") = 50 * MiB
  /\ calcIn.stats.limit = 1024 * MiB
  /\ calcOut.res.memUsage = RZero
  /\ calcOut.row[6] = NumField(0)

\* C27 as claimed: when a tick of the interval timer fires, no cycle is in
\* progress, so every row of every cycle started before is written.
C27_BatchBeforeTickFires == [][ticks' > ticks => pc \notin CyclePCs]_vars

\* C27 as the code has it: the timer may fire while a cycle runs, but when
\* the loop takes a tick from the timer the cycle before it has ended, with
\* the writer's buffer empty and all rows it owed in the file; between two
\* cycles nothing of the earlier one is left to write.
C27_BatchBeforeTickTaken ==
  /\ []((pc \in {"select", "collect"} /\ collectCalls >= 1) =>
          (cycleEnd = "stopped" \/ CycleComplete))
  /\ [][ticksReceived' > ticksReceived =>
          (pc = "select" /\ pc' = "collect" /\ buf = <<>> /\ cycleEnd # "running")]_vars

C27_Witness ==
  /\ pc = "collect"
  /\ ticksReceived = 1
  /\ cycleEnd = "wrote"
  /\ cycleStartClock < listClock
  /\ Len(file) > cycleBase

\* C28: a cycle starts with nothing of the cycle before it: when its first
\* request is outstanding it holds no enumeration, task, slot, limit or
\* metrics entry; and the rows a cycle has written when it ends are those of
\* the answers of this cycle alone, one per container whose fetch succeeded
\* in this cycle (Docker) or one per metrics entry with the limits of this
\* cycle's pod list (Kubernetes), whatever the cycle before wrote or failed.
C28_NothingSurvivesACycle ==
  /\ pc \in {"list", "pods"} =>
       /\ containers = <<>> /\ tasks = <<>> /\ results = <<>>
       /\ limitsMap = <<>> /\ podItems = <<>> /\ metricItems = <<>>
       /\ buf = <<>>
  /\ (cycleEnd = "wrote" /\ pc \in {"select", "collect", "returned"}) =>
       LET rows == SubSeq(file, cycleBase + 1, Len(file))
           flat == FlatMetrics(metricItems, 1)
       IN  IF backend = "docker"
             THEN rows = DockerOwed(1)
             ELSE rows = [k \in 1..Len(flat) |-> OwnRow(podItems, flat[k], ts)]

C28_Witness ==
  /\ backend = "docker"
  /\ collectCalls = 2
  /\ prevEnd = "wrote"
  /\ cycleEnd = "wrote"
  /\ prevTasks = <<"ok", "failed">>
  /\ tasks = <<"failed", "ok">>
  /\ cycleBase = 2
  /\ Len(file) = 3
  /\ file[2][2] = Text(DockerResult(containers[1]).name)
  /\ file[3][2] = Text(DockerResult(containers[2]).name)

\* C29: for a Kubernetes container entry, mem_usage_mb is the measured bytes
\* over 1 MiB; with a declared CPU limit > 0, cpu_pct is measured over limit
\* times 100; with a declared memory limit > 0, mem_limit_mb is the limit
\* over 1 MiB and mem_pct is measured over limit times 100; each limit counts
\* whether or not the other is declared.  250m of 500m is 50.00, 128 MiB of
\* 256 MiB is 50.00 with mem_limit_mb 256.00.
C29_K8sPercentages ==
  calcPc = "k8s" =>
    LET cm == calcIn.cm
        cpuLim == CalcLimit("cpu")
        memLim == CalcLimit("memory")
    IN  /\ calcOut.res.memUsage = Rat(cm.memBytes, MiB)
        /\ cpuLim > 0 => calcOut.res.cpuPct = Rat(cm.cpuMillis * 100, cpuLim)
        /\ memLim > 0 =>
              /\ calcOut.res.memLimit = Rat(memLim, MiB)
              /\ calcOut.res.memPct = RMul(RInt(100), Rat(cm.memBytes, memLim))
        /\ (cpuLim = 500 /\ cm.cpuMillis = 250) => calcOut.row[3] = NumField(5000)
        /\ (memLim = 256 * MiB /\ cm.memBytes = 128 * MiB) =>
              (calcOut.row[5] = NumField(25600) /\ calcOut.row[6] = NumField(5000))

C29_Witness ==
  /\ calcPc = "k8s"
  /\ calcIn.pods # <<>>
  /\ DOMAIN calcIn.pods[1].containers[1].limits = {"cpu"}
  /\ CalcLimit("cpu") = 200
  /\ calcIn.cm.cpuMillis = 50
  /\ calcIn.cm.memBytes = 16 * MiB
  /\ calcOut.row[3] = NumField(2500)
  /\ calcOut.row[4] = NumField(1600)
  /\ calcOut.row[5] = NumField(0)
  /\ calcOut.row[6] = NumField(0)

\* C30: one cycle at a time: collect is entered only from the loop's call
\* with no cycle running; a tick that fires while a cycle runs changes
\* neither the position of the cycle nor the file and starts no cycle; no
\* tick is taken from the timer while a cycle runs; while a cycle runs only
\* its own flush adds to the file, and every row added since it began is a
\* row of one of its own slots.
C30_OneCycleAtATime ==
  /\ [](cycleEnd = "running" =>
          \A i \in (cycleBase + 1)..Len(file) :
             \E j \in 1..Len(results) : file[i] = ResultRow(results[j], ts))
  /\ [][collectCalls' > collectCalls =>
          (pc = "collect" /\ cycleEnd # "running" /\ collectCalls' = collectCalls + 1)]_vars
  /\ [][(ticks' > ticks /\ pc \in CyclePCs) =>
          (pc' = pc /\ collectCalls' = collectCalls /\ file' = file /\ buf' = buf)]_vars
  /\ [][(pc \in CyclePCs) => (ticksReceived' = ticksReceived)]_vars
  /\ [][(pc \in LoopPCs /\ file' # file) => (pc = "flush" /\ cycleEnd = "running")]_vars

C30_Witness ==
  /\ pc = "flush"
  /\ cycleEnd = "running"
  /\ tickPending
  /\ clock > ts
  /\ Len(file) > cycleBase

\* C31: once the stop signal has fired the run ends: with every backend call
\* returning, the scheduler returns (or the startup ends the process), for
\* both backends, also when a tick is pending at every select.
C31_StopLeadsToReturn == stop ~> (pc \in EndPCs)

C31_Witness ==
  /\ backend = "k8s"
  /\ pc = "returned"
  /\ stop
  /\ cycleAfterStop
  /\ cycleEnd = "wrote"
  /\ ticks = MaxTicks
  /\ tickPending
  /\ ticksReceived = MaxTicks + 1

\* C32: the fan-out of a Docker cycle is free of races: while the fetches run
\* there is one task and one slot per enumerated container; a step that
\* changes a slot is the end of one running task, changes the slot of that
\* task's own index and no other, and stores name and values of that index's
\* container; a slot once written is not written again in the cycle; the
\* write loop moves and rows enter the buffer only when no task is running;
\* and the row buffered for a slot is the row of that slot's own container.
C32_RaceFreeFanOut ==
  /\ []((backend = "docker" /\ pc = "fetch") =>
          /\ Len(tasks) = Len(containers)
          /\ Len(results) = Len(containers)
          /\ \A i \in 1..Len(tasks) :
                \/ tasks[i] = "ok" /\ results[i] = DockerResult(containers[i])
                \/ tasks[i] \in {"running", "failed"} /\ results[i] = ZeroResult)
  /\ [][(backend = "docker" /\ pc = "fetch" /\ results' # results) =>
          \E i \in 1..Len(tasks) :
             /\ tasks[i] = "running"
             /\ tasks'[i] = "ok"
             /\ results[i] = ZeroResult
             /\ results'[i] = DockerResult(containers[i])
             /\ \A j \in (1..Len(tasks)) \ {i} :
                   tasks'[j] = tasks[j] /\ results'[j] = results[j]]_vars
  /\ [][(backend = "docker" /\ pc \in {"write", "flush"}) =>
          (pc' \in {"write", "flush"} => results' = results /\ tasks' = tasks)]_vars
  /\ [][(backend = "docker" /\ (idx' # idx \/ buf' # buf) /\ pc' \in {"write", "flush"}) =>
          /\ \A i \in 1..Len(tasks) : tasks[i] # "running"
          /\ buf' # buf /\ buf' # <<>> =>
                /\ tasks[idx] = "ok"
                /\ buf' = Append(buf, ResultRow(DockerResult(containers[idx]), ts))]_vars

C32_Witness ==
  /\ backend = "docker"
  /\ pc = "fetch"
  /\ Len(tasks) = 2
  /\ tasks[1] = "running"
  /\ tasks[2] = "ok"
  /\ results[1] = ZeroResult
  /\ results[2] = DockerResult(containers[2])
  /\ results[2].name = <<"db">>

\* C33: the rows of a Docker cycle are written in the order of the
\* enumeration, whichever task ended first: at every point of the write loop
\* the rows the cycle has buffered or appended so far, followed by the rows
\* owed for the slots not yet visited, are the rows owed for the whole
\* enumeration in its order, so the sequence appended is fixed by the
\* enumeration, the outcome of each fetch and the cycle's timestamp alone.
C33_EnumerationOrder ==
  (backend = "docker" /\ pc \in {"write", "flush"}) =>
    /\ firstDone # 0 => tasks[firstDone] # "running"
    /\ (SubSeq(file, cycleBase + 1, Len(file)) \o buf)
          \o DockerOwed(IF pc = "write" THEN idx ELSE idx + 1) = DockerOwed(1)

C33_Witness ==
  /\ backend = "docker"
  /\ pc = "flush"
  /\ Len(tasks) = 2
  /\ firstDone = 2
  /\ idx = 2
  /\ SubSeq(file, cycleBase + 1, Len(file)) = <<ResultRow(DockerResult(containers[1]), ts)>>
  /\ buf = <<ResultRow(DockerResult(containers[2]), ts)>>
  /\ file[Len(file)][2] = Text(<<"web">>)
  /\ buf[1][2] = Text(<<"db">>)

\* C34: a Docker cycle is complete: when the cycle has ended, every
\* enumerated container whose fetch and decode succeeded has exactly one row
\* among the rows of the cycle, under the name containerName gives it, and
\* the cycle has appended as many rows as tasks have succeeded.
C34_CompleteCycle ==
  (backend = "docker" /\ cycleEnd = "wrote" /\ pc \in {"select", "collect", "returned"}) =>
    LET rows == SubSeq(file, cycleBase + 1, Len(file))
        succeeded == {j \in 1..Len(tasks) : tasks[j] = "ok"}
    IN  /\ Len(rows) = Cardinality(succeeded)
        /\ \A j \in succeeded :
              Cardinality({k \in 1..Len(rows) :
                             rows[k] = ResultRow(DockerResult(containers[j]), ts)}) = 1

====
